---- MODULE Spec2Model ----
(***************************************************************************)
(* A model of the business-card extraction pipeline of All-We-Met:         *)
(*   - run_ocr_with_timeout  (src/bot.py, src/llm_manager.py)              *)
(*   - the Field Validators and extract_with_llm  (src/llm_manager.py)     *)
(*   - handle_photo  (src/bot.py)                                          *)
(* Python strings are TLA+ strings; a character is a string of length 1.   *)
(***************************************************************************)
EXTENDS Integers, Sequences, FiniteSets, TLC

(***************************************************************************)
(* Strings and characters                                                  *)
(***************************************************************************)
Ch(s, i) == SubSeq(s, i, i)

CharsOf(s) == {Ch(s, i) : i \in 1..Len(s)}

UpperChars == "ABCDEFGHIJKLMNOPQRSTUVWXYZ"
LowerChars == "abcdefghijklmnopqrstuvwxyz"
DigitChars == "0123456789"

Upper == CharsOf(UpperChars)
Lower == CharsOf(LowerChars)
Digit == CharsOf(DigitChars)
Space == {" ", "\n", "\t"}
Word == Upper \cup Lower \cup Digit \cup {"_"}

IndexIn(c, s) == CHOOSE i \in 1..Len(s) : Ch(s, i) = c

ToUpper(c) == IF c \in Lower THEN Ch(UpperChars, IndexIn(c, LowerChars)) ELSE c
ToLower(c) == IF c \in Upper THEN Ch(LowerChars, IndexIn(c, UpperChars)) ELSE c

\* str.lower()
RECURSIVE StrLower(_)
StrLower(s) == IF s = "" THEN "" ELSE ToLower(Head(s)) \o StrLower(Tail(s))

\* str.strip(): leading and trailing whitespace removed
RECURSIVE LStrip(_)
LStrip(s) == IF s # "" /\ Head(s) \in Space THEN LStrip(Tail(s)) ELSE s

RECURSIVE RStrip(_)
RStrip(s) ==
    IF s # "" /\ Ch(s, Len(s)) \in Space THEN RStrip(SubSeq(s, 1, Len(s) - 1)) ELSE s

Strip(s) == RStrip(LStrip(s))

\* str.title(): a cased letter is upper-cased when the previous character is
\* not a cased letter and lower-cased otherwise
RECURSIVE TitleFrom(_, _)
TitleFrom(s, prevCased) ==
    IF s = "" THEN ""
    ELSE LET c == Head(s)
             cased == c \in Upper \cup Lower
         IN  (IF ~cased THEN c ELSE IF prevCased THEN ToLower(c) ELSE ToUpper(c))
                 \o TitleFrom(Tail(s), cased)

Title(s) == TitleFrom(s, FALSE)

\* re.sub(r'[...]', '', s) for a character class: the characters of cs removed
RECURSIVE RemoveChars(_, _)
RemoveChars(s, cs) ==
    IF s = "" THEN ""
    ELSE (IF Head(s) \in cs THEN "" ELSE Head(s)) \o RemoveChars(Tail(s), cs)

\* re.sub(r'[^\d]', '', s): only the digits kept
RECURSIVE DigitsOf(_)
DigitsOf(s) ==
    IF s = "" THEN ""
    ELSE (IF Head(s) \in Digit THEN Head(s) ELSE "") \o DigitsOf(Tail(s))

\* re.sub(r'\s+', ' ', s): every run of whitespace becomes one space
RECURSIVE CollapseSpace(_, _)
CollapseSpace(s, inRun) ==
    IF s = "" THEN ""
    ELSE IF Head(s) \in Space
         THEN (IF inRun THEN "" ELSE " ") \o CollapseSpace(Tail(s), TRUE)
         ELSE Head(s) \o CollapseSpace(Tail(s), FALSE)

\* str.split('@')[1]: the text between the first and the second '@'
RECURSIVE UpToAt(_)
UpToAt(s) == IF s = "" \/ Head(s) = "@" THEN "" ELSE Head(s) \o UpToAt(Tail(s))

RECURSIVE AfterAt(_)
AfterAt(s) == IF s = "" THEN "" ELSE IF Head(s) = "@" THEN Tail(s) ELSE AfterAt(Tail(s))

SplitAt1(s) == UpToAt(AfterAt(s))

\* str.replace('.', ' ')
RECURSIVE DotsToSpaces(_)
DotsToSpaces(s) ==
    IF s = "" THEN ""
    ELSE (IF Head(s) = "." THEN " " ELSE Head(s)) \o DotsToSpaces(Tail(s))

(***************************************************************************)
(* Regular expressions with Python's backtracking order.  A position p of  *)
(* a string s lies before character p+1.  Ends(re, s, p) is the sequence   *)
(* of positions where a match of re starting at p can end, most preferred  *)
(* first; the engine takes the first one.                                  *)
(***************************************************************************)
RSet(cs) == [t |-> "set", cs |-> cs]
RNot(cs) == [t |-> "nset", cs |-> cs]
RAny == [t |-> "nset", cs |-> {"\n"}]
RWb == [t |-> "wb"]
REps == [t |-> "eps"]
RCat(a, b) == [t |-> "cat", a |-> a, b |-> b]
RAlt(a, b) == [t |-> "alt", a |-> a, b |-> b]
\* a{lo,hi}; hi = -1 is unbounded
RRep(a, lo, hi) == [t |-> "rep", a |-> a, lo |-> lo, hi |-> hi, greedy |-> TRUE]
RLazy(a, lo, hi) == [t |-> "rep", a |-> a, lo |-> lo, hi |-> hi, greedy |-> FALSE]
ROpt(a) == RRep(a, 0, 1)
RStar(a) == RRep(a, 0, -1)
RPlus(a) == RRep(a, 1, -1)
RLit(c) == RSet({c})

RECURSIVE RStr(_)
RStr(s) == IF s = "" THEN REps ELSE IF Len(s) = 1 THEN RLit(s) ELSE RCat(RLit(Head(s)), RStr(Tail(s)))

IsWordAt(s, i) == i >= 1 /\ i <= Len(s) /\ Ch(s, i) \in Word

\* \b at position p
Boundary(s, p) == IsWordAt(s, p) # IsWordAt(s, p + 1)

\* the positions lo..hi, highest first when greedy
Countdown(lo, hi, greedy) ==
    [i \in 1..(hi - lo + 1) |-> IF greedy THEN hi + 1 - i ELSE lo + i - 1]

\* the number of characters from position p on that lie in (or, negated,
\* outside) cs, at most max of them (max = -1: no limit)
RunLength(cs, negated, s, p, max) ==
    LET limit == IF max = -1 \/ max > Len(s) - p THEN Len(s) - p ELSE max
        fits(k) == \A j \in 1..k : (Ch(s, p + j) \in cs) # negated
    IN  CHOOSE k \in 0..limit : fits(k) /\ (k = limit \/ ~fits(k + 1))

RECURSIVE Ends(_, _, _)
RECURSIVE RepEnds(_, _, _, _)

\* the ends of b started at each position of es, in order
CatEnds(b, s, es) ==
    LET from[i \in 1..(Len(es) + 1)] ==
            IF i > Len(es) THEN <<>> ELSE Ends(b, s, es[i]) \o from[i + 1]
    IN  from[1]

\* a repetition that has matched n times and stands at p, where es are the
\* ends of one more match of re.a: more matches first when greedy
RepFrom(re, s, p, n, es) ==
    LET from[i \in 1..(Len(es) + 1)] ==
            IF i > Len(es) THEN <<>> ELSE RepEnds(re, s, es[i], n + 1) \o from[i + 1]
        more == IF re.hi # -1 /\ n >= re.hi THEN <<>> ELSE from[1]
        stop == IF n >= re.lo THEN <<p>> ELSE <<>>
    IN  IF re.greedy THEN more \o stop ELSE stop \o more

\* the ends of a repetition of re.a that has already matched n times
RepEnds(re, s, p, n) ==
    RepFrom(re, s, p, n, SelectSeq(Ends(re.a, s, p), LAMBDA e : e > p))

\* the ends of a repetition of a single character class with a run of r
ClassRun(re, p, r) ==
    IF r < re.lo THEN <<>>
    ELSE [i \in 1..(r - re.lo + 1) |-> p + Countdown(re.lo, r, re.greedy)[i]]

ClassRepEnds(re, s, p) ==
    ClassRun(re, p, RunLength(re.a.cs, re.a.t = "nset", s, p, re.hi))

Ends(re, s, p) ==
    CASE re.t = "set"  -> IF p < Len(s) /\ Ch(s, p + 1) \in re.cs THEN <<p + 1>> ELSE <<>>
      [] re.t = "nset" -> IF p < Len(s) /\ Ch(s, p + 1) \notin re.cs THEN <<p + 1>> ELSE <<>>
      [] re.t = "wb"   -> IF Boundary(s, p) THEN <<p>> ELSE <<>>
      [] re.t = "eps"  -> <<p>>
      [] re.t = "cat"  -> CatEnds(re.b, s, Ends(re.a, s, p))
      [] re.t = "alt"  -> Ends(re.a, s, p) \o Ends(re.b, s, p)
      [] re.t = "rep"  -> IF re.a.t \in {"set", "nset"} THEN ClassRepEnds(re, s, p)
                          ELSE RepEnds(re, s, p, 0)

NoMatch == <<-1, -1>>

\* the match that starts at p and ends at the most preferred of es
FirstEnd(p, es) == IF es = <<>> THEN NoMatch ELSE <<p, Head(es)>>

\* pattern.match(s) at position p: <<start, end>> or NoMatch
MatchAt(re, s, p) == FirstEnd(p, Ends(re, s, p))

\* pattern.search(s) from position p: the leftmost match
RECURSIVE SearchFrom(_, _, _)
SearchOr(re, s, p, m) == IF m # NoMatch THEN m ELSE SearchFrom(re, s, p + 1)
SearchFrom(re, s, p) ==
    IF p > Len(s) THEN NoMatch ELSE SearchOr(re, s, p, MatchAt(re, s, p))

Search(re, s) == SearchFrom(re, s, 0)

\* match.group(0)
Group0(s, m) == SubSeq(s, m[1] + 1, m[2])

\* re.findall / finditer for a pattern without capturing groups: the
\* non-overlapping matches, left to right
RECURSIVE FindAllFrom(_, _, _)
FindAllNext(re, s, m) ==
    IF m = NoMatch THEN <<>>
    ELSE <<Group0(s, m)>> \o FindAllFrom(re, s, IF m[2] > m[1] THEN m[2] ELSE m[2] + 1)
FindAllFrom(re, s, p) == FindAllNext(re, s, SearchFrom(re, s, p))

FindAll(re, s) == FindAllFrom(re, s, 0)

\* re.sub(open (.*?) close, r'\1', s) where open and close are literals of
\* length n: every match is replaced by what lies between its delimiters
RECURSIVE SubInner(_, _, _, _)
SubInnerNext(re, n, s, p, m) ==
    IF m = NoMatch THEN SubSeq(s, p + 1, Len(s))
    ELSE SubSeq(s, p + 1, m[1]) \o SubSeq(s, m[1] + n + 1, m[2] - n)
             \o SubInner(re, n, s, m[2])
SubInner(re, n, s, p) == SubInnerNext(re, n, s, p, SearchFrom(re, s, p))

(***************************************************************************)
(* The Field Validators (src/llm_manager.py)                               *)
(***************************************************************************)
NA == "N/A"

\* (?:\+|\b)\d+(?:[\s.-]\d+)*
PHONE_REGEX ==
    RCat(RAlt(RLit("+"), RWb),
         RCat(RPlus(RSet(Digit)),
              RStar(RCat(RSet(Space \cup {".", "-"}), RPlus(RSet(Digit))))))

\* \b[A-Za-z0-9._%+-]+@[A-Za-z0-9.-]+\.[A-Z|a-z]{2,}\b
EMAIL_REGEX ==
    RCat(RWb,
    RCat(RPlus(RSet(Upper \cup Lower \cup Digit \cup {".", "_", "%", "+", "-"})),
    RCat(RLit("@"),
    RCat(RPlus(RSet(Upper \cup Lower \cup Digit \cup {".", "-"})),
    RCat(RLit("."),
    RCat(RRep(RSet(Upper \cup Lower \cup {"|"}), 2, -1), RWb))))))

\* [A-Z][a-z]+
CapWord == RCat(RSet(Upper), RPlus(RSet(Lower)))

\* \b[A-Z][a-z]+(?:\s[A-Z][a-z]+){1,hi}\b
CapPhrase(hi) == RCat(RWb, RCat(CapWord, RCat(RRep(RCat(RSet(Space), CapWord), 1, hi), RWb)))

\* \b[A-Z][a-zA-Z\s&.-]+(?:Pvt\.?\s*Ltd\.?|Inc\.?|LLC)?\b
COMPANY_REGEX ==
    RCat(RWb,
    RCat(RSet(Upper),
    RCat(RPlus(RSet(Upper \cup Lower \cup Space \cup {"&", ".", "-"})),
    RCat(ROpt(RAlt(RCat(RStr("Pvt"), RCat(ROpt(RLit(".")), RCat(RStar(RSet(Space)),
                        RCat(RStr("Ltd"), ROpt(RLit(".")))))),
                   RAlt(RCat(RStr("Inc"), ROpt(RLit("."))), RStr("LLC")))),
         RWb))))

\* \*\*(.*?)\*\*   and   \*(.*?)\*
BOLD_REGEX == RCat(RStr("**"), RCat(RLazy(RAny, 0, -1), RStr("**")))
ITALIC_REGEX == RCat(RStr("*"), RCat(RLazy(RAny, 0, -1), RStr("*")))

\* a variant of the sanitizer that strips the bold markers only
clean_markdown_BoldOnly(text) ==
    IF text = "" \/ text = NA THEN text ELSE Strip(SubInner(BOLD_REGEX, 2, text, 0))

clean_markdown(text) ==
    IF text = "" \/ text = NA THEN text
    ELSE Strip(SubInner(ITALIC_REGEX, 1, SubInner(BOLD_REGEX, 2, text, 0), 0))

\* a variant of the formatting that never groups the digits
FormatPhone_Ungrouped(matched_phone) ==
    IF Len(DigitsOf(matched_phone)) < 7 THEN NA ELSE "+" \o DigitsOf(matched_phone)

\* a variant of the formatting that keeps ten digits at most
FormatPhone_Truncating(matched_phone) ==
    IF Len(DigitsOf(matched_phone)) < 7 THEN NA
    ELSE "+" \o SubSeq(DigitsOf(matched_phone), 1, 10)

\* lines 77-100: the matched run formatted
FormatPhone(matched_phone) ==
    LET digits == DigitsOf(matched_phone)
        country_len == IF Head(digits) # "1" /\ Head(digits) # "9" THEN 1
                       ELSE IF SubSeq(digits, 1, 2) = "91" THEN 2
                       ELSE IF Len(digits) > 10 THEN 3 ELSE 1
        country == IF SubSeq(digits, 1, 2) = "91" THEN "91"
                   ELSE IF Head(digits) = "1" THEN "1"
                   ELSE SubSeq(digits, 1, country_len)
        rest == SubSeq(digits, Len(country) + 1, Len(digits))
    IN  IF Len(digits) < 7 THEN NA
        ELSE IF Len(rest) # 10 THEN "+" \o country \o " " \o rest
        ELSE IF country = "91"
             THEN "+91 " \o SubSeq(rest, 1, 2) \o " " \o SubSeq(rest, 3, 6) \o " " \o SubSeq(rest, 7, 10)
        ELSE IF country = "1"
             THEN "+1-" \o SubSeq(rest, 1, 3) \o "-" \o SubSeq(rest, 4, 6) \o "-" \o SubSeq(rest, 7, 10)
        ELSE "+" \o country \o " " \o SubSeq(rest, 1, 3) \o " " \o SubSeq(rest, 4, 6) \o " " \o SubSeq(rest, 7, 10)

\* max(cands, key=number of digits): the first of the maximal ones
RECURSIVE MaxByDigits(_)
MaxByDigits(cands) ==
    IF Len(cands) = 1 THEN Head(cands)
    ELSE LET m == MaxByDigits(Tail(cands))
         IN  IF Len(DigitsOf(Head(cands))) >= Len(DigitsOf(m)) THEN Head(cands) ELSE m

\* lines 107-111: the runs with a leading '+' are preferred
BestOf(valid, with_plus) == MaxByDigits(IF with_plus # <<>> THEN with_plus ELSE valid)
BestRun(valid) == BestOf(valid, SelectSeq(valid, LAMBDA c : Head(c) = "+"))

\* lines 102-104: the runs of the raw text with 7 digits or more
ValidRuns(raw_text) ==
    SelectSeq(FindAll(PHONE_REGEX, RemoveChars(raw_text, {"(", ")"})),
              LAMBDA c : Len(DigitsOf(c)) >= 7)

RECURSIVE validate_phone(_, _)
\* lines 105-114
PhoneFromRaw(valid, raw_text) ==
    IF valid # <<>> THEN validate_phone(BestRun(valid), raw_text) ELSE NA
\* lines 75-114, with phone cleaned of parentheses and m = PHONE_REGEX.search(phone)
PhoneFromMatch(phone, m, raw_text) ==
    IF m # NoMatch THEN FormatPhone(Group0(phone, m))
    ELSE PhoneFromRaw(ValidRuns(raw_text), raw_text)
PhoneCleaned(phone, raw_text) == PhoneFromMatch(phone, Search(PHONE_REGEX, phone), raw_text)
validate_phone(phone, raw_text) == PhoneCleaned(RemoveChars(phone, {"(", ")"}), raw_text)

\* candidates[n - 1] if len(candidates) >= n else 'N/A'
NthOrNA(candidates, n) == IF Len(candidates) >= n THEN candidates[n] ELSE NA

validate_name(name, raw_text) ==
    IF name = NA THEN NthOrNA(FindAll(CapPhrase(2), raw_text), 1)
    ELSE Strip(Title(name))

\* a variant of the fallback that tries the capitalized phrase first
CompanyFromRaw_PhraseFirst(email_match, raw_text) ==
    IF FindAll(COMPANY_REGEX, raw_text) # <<>> THEN Head(FindAll(COMPANY_REGEX, raw_text))
    ELSE IF email_match # NoMatch
    THEN Title(DotsToSpaces(SplitAt1(Group0(raw_text, email_match))))
    ELSE NA

\* lines 127-133, with email_match = EMAIL_REGEX.search(raw_text)
CompanyFromRaw(email_match, raw_text) ==
    IF email_match # NoMatch
    THEN Title(DotsToSpaces(SplitAt1(Group0(raw_text, email_match))))
    ELSE NthOrNA(FindAll(COMPANY_REGEX, raw_text), 1)

validate_company(company, raw_text) ==
    IF company = NA THEN CompanyFromRaw(Search(EMAIL_REGEX, raw_text), raw_text)
    ELSE Title(CollapseSpace(company, FALSE))

validate_description(desc, raw_text) ==
    IF desc = NA THEN NthOrNA(FindAll(CapPhrase(3), raw_text), 2)
    ELSE Strip(Title(desc))

\* lines 148-149, with match = EMAIL_REGEX.search(raw_text)
EmailFromRaw(match, raw_text) ==
    IF match # NoMatch THEN StrLower(Group0(raw_text, match)) ELSE NA

validate_email(email, raw_text) ==
    IF MatchAt(EMAIL_REGEX, email, 0) # NoMatch THEN Strip(StrLower(email))
    ELSE EmailFromRaw(Search(EMAIL_REGEX, raw_text), raw_text)

(***************************************************************************)
(* State                                                                   *)
(***************************************************************************)
VARIABLES
    \* one call of run_ocr_with_timeout
    ocrImpl,      \* "bot" (src/bot.py) or "llm" (src/llm_manager.py)
    ocrImage,     \* what the primary backend detects: a sequence of <<text, confidence>>
    ocrPc,        \* where the calling thread is
    worker,       \* the primary backend's worker thread
    workerText,   \* what ocr_easy returned, once the worker is done
    timedOut,     \* future.result raised TimeoutError
    fbOut,        \* what the fallback backend did, once it ran
    ocrRet,       \* the value of the return statement that was executed
    \* one call of extract_with_llm
    client,       \* a language-model credential is configured
    exPc, exText, exRaw, exMax,
    attempt,      \* the loop variable of the retry loop
    calls,        \* invocations of the language model so far
    fails,        \* attempts that ended without a returned record
    exData,       \* the JSON object of the accepted response, as parsed
    exRecord,     \* the returned record
    exLastExc,    \* the exception of the last failed attempt ("": none)
    validated,    \* some Field Validator has been invoked
    \* one photo request (handle_photo)
    phPc, user, rows, reply,
    \* one direct call of a Field Validator: the arguments and the outcome
    val,
    vlog,         \* the validator calls that returned earlier, oldest first
    \* two photo requests handled as concurrent tasks of one event loop
    req,          \* per request: where it is, its image, its file name, its results
    files,        \* the temporary directory: file name -> content
    \* one chat with the bot over one contacts sheet
    grid,         \* the rows of Sheet1, top to bottom, header included
    udata,        \* context.user_data of the chat
    chat,         \* what the user has sent and what the bot has shown and issued
    \* the user store and one direct call of a row-store function
    users,        \* users.json: telegram id -> record
    gs,           \* the call: its arguments, its requests and its outcome
    \* sign-out, sign-in and the commands of the bot
    sess,         \* who has signed out, and what the latest handler did
    \* threads calling the user-store functions
    jm            \* users.json, file_lock and each thread's position

ocrVars == <<ocrImpl, ocrImage, ocrPc, worker, workerText, timedOut, fbOut, ocrRet>>
exVars ==
    <<exPc, exText, exRaw, exMax, attempt, calls, fails, exData, exRecord, exLastExc, validated>>
phVars == <<phPc, user, rows, reply>>
svcVars == <<vlog, req, files, grid, udata, chat, users, gs, sess, jm>>
vars == <<ocrVars, client, exVars, phVars, val, svcVars>>

(***************************************************************************)
(* run_ocr_with_timeout                                                    *)
(***************************************************************************)
\* the longest detection list tried
MaxFragments == 2

\* confidences in hundredths; the filter of src/bot.py:178 keeps det[2] > 0.5
ConfThreshold == 50
Detections ==
    {<<"John Carter", 90>>, <<"jane@simpel.ai", 50>>, <<"Vice President Sales", 30>>, <<" ", 90>>}

RECURSIVE SeqsUpTo(_, _)
SeqsUpTo(S, n) ==
    IF n = 0 THEN {<<>>}
    ELSE LET shorter == SeqsUpTo(S, n - 1)
         IN  shorter \cup {Append(q, x) : q \in {r \in shorter : Len(r) = n - 1}, x \in S}

Images == SeqsUpTo(Detections, MaxFragments)

\* what pytesseract.image_to_string may return
FallbackTexts == {"", " \n", " Jane Doe\n", "jane@simpel.ai"}

NoOut == <<"none", "">>
Raised == <<"raise", "">>
Text(t) == <<"text", t>>
FallbackOutcomes == {Raised} \cup {Text(t) : t \in FallbackTexts}

\* ' '.join(parts)
RECURSIVE JoinSpace(_)
JoinSpace(parts) ==
    IF parts = <<>> THEN ""
    ELSE IF Len(parts) = 1 THEN parts[1]
    ELSE parts[1] \o " " \o JoinSpace(Tail(parts))

RECURSIVE Texts(_)
Texts(dets) == IF dets = <<>> THEN <<>> ELSE <<Head(dets)[1]>> \o Texts(Tail(dets))

\* ocr_easy of src/bot.py: low-confidence detections are dropped
ocr_easy_bot(dets) == JoinSpace(Texts(SelectSeq(dets, LAMBDA det : det[2] > ConfThreshold)))

\* ocr_easy of src/llm_manager.py: every detection is kept
ocr_easy_llm(dets) == JoinSpace(Texts(dets))

ocr_easy(impl, dets) == IF impl = "bot" THEN ocr_easy_bot(dets) ELSE ocr_easy_llm(dets)

\* a variant of the fallback branch that returns the output untrimmed
tesseract_fallback_untrimmed(out) == IF out = Raised THEN "" ELSE out[2]

\* the fallback branch: the trimmed output, or "" when the backend raises
tesseract_fallback(out) == IF out = Raised THEN "" ELSE Strip(out[2])

OcrIdle ==
    /\ ocrImpl = "bot" /\ ocrImage = <<>> /\ ocrPc = "idle" /\ worker = "none"
    /\ workerText = "" /\ timedOut = FALSE /\ fbOut = NoOut /\ ocrRet = ""

\* executor.submit(ocr_easy); the caller then blocks in future.result(timeout)
OcrSubmit(impl, image) ==
    /\ ocrPc = "idle"
    /\ ocrImpl' = impl
    /\ ocrImage' = image
    /\ worker' = "running"
    /\ ocrPc' = "waiting"
    /\ UNCHANGED <<workerText, timedOut, fbOut, ocrRet>>

\* the worker thread: ocr_easy returns
WorkerFinish ==
    /\ worker = "running"
    /\ worker' = "done"
    /\ workerText' = ocr_easy(ocrImpl, ocrImage)
    /\ UNCHANGED <<ocrImpl, ocrImage, ocrPc, timedOut, fbOut, ocrRet>>

\* the worker thread: ocr_easy raises
WorkerFail ==
    /\ worker = "running"
    /\ worker' = "failed"
    /\ UNCHANGED <<ocrImpl, ocrImage, ocrPc, workerText, timedOut, fbOut, ocrRet>>

\* future.result returns the worker's text within the budget: return easy_text
OcrResult ==
    /\ ocrPc = "waiting" /\ worker = "done"
    /\ ocrRet' = workerText
    /\ ocrPc' = "exit_return"
    /\ UNCHANGED <<ocrImpl, ocrImage, worker, workerText, timedOut, fbOut>>

\* future.result re-raises the worker's exception; no except clause matches
OcrResultRaises ==
    /\ ocrPc = "waiting" /\ worker = "failed"
    /\ ocrPc' = "exit_raise"
    /\ UNCHANGED <<ocrImpl, ocrImage, worker, workerText, timedOut, fbOut, ocrRet>>

\* the budget elapses with the worker still running: TimeoutError
OcrTimeout ==
    /\ ocrPc = "waiting" /\ worker = "running"
    /\ timedOut' = TRUE
    /\ ocrPc' = "fallback"
    /\ UNCHANGED <<ocrImpl, ocrImage, worker, workerText, fbOut, ocrRet>>

\* the fallback backend runs on the calling thread: return its result
OcrFallback(out) ==
    /\ ocrPc = "fallback"
    /\ fbOut' = out
    /\ ocrRet' = tesseract_fallback(out)
    /\ ocrPc' = "exit_return"
    /\ UNCHANGED <<ocrImpl, ocrImage, worker, workerText, timedOut>>

\* leaving the with block: ThreadPoolExecutor.__exit__ is shutdown(wait=True),
\* which joins the worker thread before the return or the raise takes effect
ExecutorExit ==
    /\ ocrPc \in {"exit_return", "exit_raise"}
    /\ worker \in {"done", "failed"}
    /\ ocrPc' = IF ocrPc = "exit_return" THEN "returned" ELSE "raised"
    /\ UNCHANGED <<ocrImpl, ocrImage, worker, workerText, timedOut, fbOut, ocrRet>>

(***************************************************************************)
(* extract_with_llm                                                        *)
(***************************************************************************)
\* JSON values: <<"str", s>>, null, and numbers (0 is falsy, 5 is truthy)
JStr(s) == <<"str", s>>
JNull == <<"null", "">>
JNum(n) == <<"num", n>>
IsStr(v) == v[1] = "str"
\* Python's truth value of a parsed JSON value
Truthy(v) == (v[1] = "str" /\ v[2] # "") \/ (v[1] = "num" /\ v[2] # "0")

Keys5 == {"name", "company", "description", "phone", "email"}
KeyOrder == <<"name", "company", "description", "phone", "email">>
ExtraKey == "website"

AllNA == [k \in Keys5 |-> JStr(NA)]

\* the JSON objects the language model is tried with: a well-formed answer,
\* and that answer with one key dropped or set to another value
BaseObject ==
    [name |-> JStr("jane doe"), company |-> JStr("acme  inc"), description |-> JStr("cto"),
     phone |-> JStr("(415) 555-2671"), email |-> JStr("Jane@Simpel.AI")]
OtherValues ==
    {JStr(NA), JStr(""), JStr(" "), JStr("n/a"), JStr("**Jane Doe**"), JStr("*x*"),
     JNull, JNum("0"), JNum("5")}
Objects ==
    {BaseObject, AllNA, [k \in {} |-> JNull]}
      \cup {[k \in DOMAIN BaseObject \ {d} |-> BaseObject[k]] : d \in Keys5}
      \cup {[k \in DOMAIN BaseObject \cup {c} |-> IF k = c THEN v ELSE BaseObject[k]] :
               c \in Keys5 \cup {ExtraKey}, v \in OtherValues}

\* what one invocation of the model can end in
ApiError == [k |-> "error", d |-> AllNA]
PlainText == [k |-> "text", d |-> AllNA]
BadJson == [k |-> "badjson", d |-> AllNA]
JsonObject(d) == [k |-> "obj", d |-> d]
ModelOutcomes == {ApiError, PlainText, BadJson} \cup {JsonObject(d) : d \in Objects}

\* the result of a Python expression: a value, or an exception
Ok(v) == [ok |-> TRUE, v |-> v, exc |-> ""]
Raise(e) == [ok |-> FALSE, v |-> JNull, exc |-> e]

\* a variant of the cleaning loop that leaves every value as the model sent it
CleanValue_Unchanged(v) == Ok(v)

\* clean_markdown applied to a JSON value: a falsy value and "N/A" come back
\* unchanged, re.sub raises TypeError on a truthy value that is no string
CleanValue(v) ==
    IF IsStr(v) THEN Ok(JStr(clean_markdown(v[2])))
    ELSE IF Truthy(v) THEN Raise("TypeError")
    ELSE Ok(v)

Validator(k, candidate, raw_text) ==
    CASE k = "name" -> validate_name(candidate, raw_text)
      [] k = "company" -> validate_company(candidate, raw_text)
      [] k = "description" -> validate_description(candidate, raw_text)
      [] k = "phone" -> validate_phone(candidate, raw_text)
      [] k = "email" -> validate_email(candidate, raw_text)

\* a validator applied to a JSON value: None.title(), re.sub(.., None) and
\* EMAIL_REGEX.match(None) raise
ValidateValue(k, v, raw_text) ==
    IF IsStr(v) THEN Ok(JStr(Validator(k, v[2], raw_text)))
    ELSE Raise(IF k \in {"name", "description"} THEN "AttributeError" ELSE "TypeError")

\* data.get(k, 'N/A')
Get(data, k) == IF k \in DOMAIN data THEN data[k] ELSE JStr(NA)

\* lines 168-169: for key in data: data[key] = clean_markdown(data.get(key, 'N/A'))
Cleaned(cleaned) ==
    IF \E k \in DOMAIN cleaned : ~cleaned[k].ok THEN Raise("TypeError")
    ELSE Ok([k \in DOMAIN cleaned |-> cleaned[k].v])
CleanAll(d) == Cleaned([k \in DOMAIN d |-> CleanValue(d[k])])

\* the first key, in the order of lines 171-175, whose validator raised
FirstBad(res) ==
    KeyOrder[CHOOSE i \in 1..Len(KeyOrder) :
                /\ ~res[KeyOrder[i]].ok
                /\ \A j \in 1..(i - 1) : res[KeyOrder[j]].ok]

\* lines 171-176, with res[k] = validate_k(data.get(k, 'N/A'), raw): the first
\* exception is raised, else data is returned with the five keys overwritten
Validated(data, res) ==
    IF \E k \in Keys5 : ~res[k].ok THEN Raise(res[FirstBad(res)].exc)
    ELSE Ok([k \in DOMAIN data \cup Keys5 |-> IF k \in Keys5 THEN res[k].v ELSE data[k]])

ApplyValidations(data, raw_text) ==
    Validated(data, [k \in Keys5 |-> ValidateValue(k, Get(data, k), raw_text)])

\* lines 166-176, with c the outcome of the cleaning loop
CleanedThenValidated(c, raw_text) == IF c.ok THEN ApplyValidations(c.v, raw_text) ELSE c

\* lines 164-176: what the body of the try block does with one outcome of the
\* model: Ok(record) is returned, Raise(e) is raised inside the try block, and
\* Raise("") falls through to the sleep without an exception
TryBody(outcome, raw_text) ==
    CASE outcome.k = "error" -> Raise("APIError")
      [] outcome.k = "text" -> Raise("")
      [] outcome.k = "badjson" -> Raise("JSONDecodeError")
      [] outcome.k = "obj" -> CleanedThenValidated(CleanAll(outcome.d), raw_text)

\* a variant of the try statement without its except Exception clause
Handled_JsonOnly(exc) == exc = "JSONDecodeError"

\* lines 177-180: except json.JSONDecodeError, except Exception
ExceptionClasses == {"JSONDecodeError", "APIError", "TypeError", "AttributeError"}
Handled(exc) == exc = "JSONDecodeError" \/ exc \in ExceptionClasses

\* a variant of the fallback that returns the sentinel record
RegexFallback_AllNA(raw_text) == AllNA

\* line 185: each validator with candidate 'N/A' and the raw text
RegexFallback(raw_text) == [k \in Keys5 |-> JStr(Validator(k, NA, raw_text))]

\* raw_text or text
NoRaw == <<"none", "">>
RawOrText(raw, text) == IF raw = NoRaw \/ raw[2] = "" THEN text ELSE raw[2]

\* a variant of the entry test that ignores the missing client
Skips_TextOnly(text, hasClient) == text = ""

\* line 152: not text or not client
Skips(text, hasClient) == text = "" \/ ~hasClient

\* a variant of the loop that runs one iteration more
LoopContinues_OffByOne(i, max_retries) == i <= max_retries

\* line 156: for attempt in range(max_retries)
LoopContinues(i, max_retries) == i < max_retries

NoData == [k \in {} |-> JNull]

ExIdle ==
    /\ exPc = "idle" /\ exText = "" /\ exRaw = NoRaw /\ exMax = 0 /\ attempt = 0
    /\ calls = 0 /\ fails = 0 /\ exData = NoData /\ exRecord = NoData /\ exLastExc = ""
    /\ validated = FALSE

\* extract_with_llm(text, raw_text, max_retries) is entered; without text or
\* without a client it returns at once
ExCall(text, raw, max_retries) ==
    /\ exPc = "idle"
    /\ exText' = text /\ exRaw' = raw /\ exMax' = max_retries
    /\ IF Skips(text, client)
       THEN exPc' = "done" /\ exRecord' = AllNA
       ELSE exPc' = "loop" /\ exRecord' = exRecord
    /\ UNCHANGED <<attempt, calls, fails, exData, exLastExc, validated>>

\* the loop head with attempts left: client.chat.completions.create is called
ExInvoke ==
    /\ exPc = "loop" /\ LoopContinues(attempt, exMax)
    /\ calls' = calls + 1
    /\ exPc' = "awaiting"
    /\ UNCHANGED <<exText, exRaw, exMax, attempt, fails, exData, exRecord, exLastExc, validated>>

\* the try block has ended in r: a return, or a failed attempt
ExAttemptEnds(outcome, r) ==
    /\ exPc = "awaiting"
    /\ validated' = (validated \/ (outcome.k = "obj" /\ CleanAll(outcome.d).ok))
    /\ IF r.ok
       THEN /\ exPc' = "done"
            /\ exData' = outcome.d
            /\ exRecord' = r.v
            /\ UNCHANGED <<fails, exLastExc>>
       ELSE /\ exPc' = IF r.exc = "" \/ Handled(r.exc) THEN "sleeping" ELSE "raised"
            /\ fails' = fails + 1
            /\ exLastExc' = r.exc
            /\ UNCHANGED <<exData, exRecord>>
    /\ UNCHANGED <<exText, exRaw, exMax, attempt, calls>>

\* the invocation ends in outcome; the rest of the try block runs
ExOutcome(outcome) == ExAttemptEnds(outcome, TryBody(outcome, RawOrText(exRaw, exText)))

\* time.sleep(0.5), then the next iteration
ExSleep ==
    /\ exPc = "sleeping"
    /\ attempt' = attempt + 1
    /\ exPc' = "loop"
    /\ UNCHANGED <<exText, exRaw, exMax, calls, fails, exData, exRecord, exLastExc, validated>>

\* the loop is exhausted: the regex fallback record is returned
ExExhausted ==
    /\ exPc = "loop" /\ ~LoopContinues(attempt, exMax)
    /\ exRecord' = RegexFallback(RawOrText(exRaw, exText))
    /\ validated' = TRUE
    /\ exPc' = "done"
    /\ UNCHANGED <<exText, exRaw, exMax, attempt, calls, fails, exData, exLastExc>>

(***************************************************************************)
(* handle_photo                                                            *)
(***************************************************************************)
\* max_retries of extract_with_llm when the caller passes none
DEFAULT_MAX_RETRIES == 3

\* what lines 230-249 can end in: no usable sheet; append_row true (the row
\* is stored) and the success message shown; append_row true and edit_text
\* of line 247 raising (the message is sent with parse_mode='HTML' and the
\* extracted values unescaped, or the network fails); append_row false or
\* raising
StoreOutcomes == {"no_sheet", "appended", "appended_unshown", "not_appended"}
Appends(out) == out \in {"appended", "appended_unshown"}

Row(data) ==
    <<"timestamp", Get(data, "name"), Get(data, "company"), Get(data, "description"),
      Get(data, "phone"), Get(data, "email")>>

\* a variant of the emptiness test that does not trim
IsBlank_Untrimmed(ocr_text) == ocr_text = ""

\* line 217: not ocr_text.strip()
IsBlank(ocr_text) == Strip(ocr_text) = ""

PhIdle == phPc = "idle" /\ rows = <<>> /\ reply = <<>>

\* lines 197-200: a photo from a user who is not signed in
PhNotSignedIn ==
    /\ phPc = "idle" /\ ~user
    /\ reply' = Append(reply, "please_sign_in")
    /\ phPc' = "done"
    /\ UNCHANGED <<rows, user, ocrVars, exVars, client, val, svcVars>>

\* lines 203-214: the processing message, the download, and the OCR call
PhRecover(image) ==
    /\ phPc = "idle" /\ user
    /\ reply' = Append(reply, "processing")
    /\ OcrSubmit("bot", image)
    /\ phPc' = "recovering"
    /\ UNCHANGED <<rows, user, exVars, client, val, svcVars>>

\* lines 217-218: nothing but whitespace was recovered: ValueError
PhNoText ==
    /\ phPc = "recovering" /\ ocrPc = "returned"
    /\ IsBlank(ocrRet)
    /\ phPc' = "except"
    /\ UNCHANGED <<rows, reply, user, ocrVars, exVars, client, val, svcVars>>

\* line 214: run_ocr_with_timeout raised
PhOcrRaised ==
    /\ phPc = "recovering" /\ ocrPc = "raised"
    /\ phPc' = "except"
    /\ UNCHANGED <<rows, reply, user, ocrVars, exVars, client, val, svcVars>>

\* line 221: data = extract_with_llm(ocr_text, raw_text=ocr_text)
PhExtract ==
    /\ phPc = "recovering" /\ ocrPc = "returned"
    /\ ~IsBlank(ocrRet)
    /\ ExCall(ocrRet, JStr(ocrRet), DEFAULT_MAX_RETRIES)
    /\ phPc' = "extracting"
    /\ UNCHANGED <<rows, reply, user, ocrVars, client, val, svcVars>>

\* lines 223-249: the sheet is validated, the row appended and the success
\* message shown; an exception at any of these goes to line 251
PhStore(out) ==
    /\ phPc = "extracting" /\ exPc = "done"
    /\ rows' = IF Appends(out) THEN Append(rows, Row(exRecord)) ELSE rows
    /\ IF out = "appended"
       THEN /\ reply' = Append(reply, "added")
            /\ phPc' = "done"
       ELSE /\ phPc' = "except"
            /\ UNCHANGED reply
    /\ UNCHANGED <<user, ocrVars, exVars, client, val, svcVars>>

\* lines 251-260: the error message; the processing message is deleted
PhExcept ==
    /\ phPc = "except"
    /\ reply' = Append(reply, "could_not_extract")
    /\ phPc' = "failed"
    /\ UNCHANGED <<rows, user, ocrVars, exVars, client, val, svcVars>>

(***************************************************************************)
(* A Field Validator called on its own                                     *)
(***************************************************************************)
ValIdle == val = [pc |-> "idle", fn |-> "", cand |-> JNull, raw |-> "", out |-> Ok(JNull)]

\* the candidates a validator is tried with: what a model may put in a field
ValCandidates ==
    {JStr(s) : s \in {NA, "", " ", "n/a", "jane doe", "acme  inc",
                      "+1-415-555-2671", "+91 99090 48406", "(415) 555-2671", "911234567",
                      "9876543210123", "12345", "ext 12",
                      "Jane@Simpel.AI", "Jane@Simpel.AI (work)", " jane@simpel.ai"}}
      \cup {JNull, JNum("0"), JNum("5")}

\* the raw texts a validator is tried with
ValRaws ==
    {"", "John Carter Vice President Sales", "John Carter, Vice President Sales",
     "contact: jane@simpel.ai", "Acme Corp contact: jane@simpel.ai", "Acme Corp",
     "+91 99090 48406", "Mob(9909048406)", "+91 (99090) 48406",
     "call 5551234 or +1 415 555 2671", "99090484061 +5551234"}

\* validate_<fn>(cand, raw) is called and returns or raises
ValCall(fn, cand, raw) ==
    /\ val.pc = "idle"
    /\ val' = [pc |-> "done", fn |-> fn, cand |-> cand, raw |-> raw,
               out |-> ValidateValue(fn, cand, raw)]
    /\ UNCHANGED <<ocrVars, client, exVars, phVars, svcVars>>

(***************************************************************************)
(* Field Validators called one after another                               *)
(***************************************************************************)
\* the most earlier calls remembered
MaxValCalls == 2

\* the calls tried in a row: <<validator, candidate, raw text>>
DetCalls ==
    {<<"phone", JStr("911234567"), "">>,
     <<"phone", JStr(NA), "+91 99090 48406">>,
     <<"name", JStr("jane doe"), "">>,
     <<"company", JStr(NA), "contact: jane@simpel.ai">>,
     <<"description", JStr(NA), "John Carter Vice President Sales">>,
     <<"email", JStr("Jane@Simpel.AI"), "">>}

\* a variant of the next call whose answer depends on whether a validator
\* has answered before
ValRepeat_Stateful(fn, cand, raw) ==
    /\ val.pc = "done" => Len(vlog) < MaxValCalls
    /\ vlog' = IF val.pc = "done" THEN Append(vlog, val) ELSE vlog
    /\ val' = [pc |-> "done", fn |-> fn, cand |-> cand, raw |-> raw,
               out |-> IF val.pc = "done" THEN Ok(JStr(NA)) ELSE ValidateValue(fn, cand, raw)]
    /\ UNCHANGED <<ocrVars, client, exVars, phVars, req, files, grid, udata, chat, users, gs, sess, jm>>

\* validate_<fn>(cand, raw) is called, possibly after earlier calls of the
\* validators and of extract_with_llm, and returns or raises; the functions
\* of src/llm_manager.py:71-149 assign to locals only and read the compiled
\* patterns of lines 31-33, which nothing assigns to
ValRepeat(fn, cand, raw) ==
    /\ val.pc = "done" => Len(vlog) < MaxValCalls
    /\ vlog' = IF val.pc = "done" THEN Append(vlog, val) ELSE vlog
    /\ val' = [pc |-> "done", fn |-> fn, cand |-> cand, raw |-> raw,
               out |-> ValidateValue(fn, cand, raw)]
    /\ UNCHANGED <<ocrVars, client, exVars, phVars, req, files, grid, udata, chat, users, gs, sess, jm>>

(***************************************************************************)
(* Two photo requests as tasks of one event loop                           *)
(***************************************************************************)
\* Application.concurrent_updates(True), src/bot.py:630: handle_photo of two
\* updates runs as two coroutines of one event loop, which change over only
\* where one of them awaits
Requests == 1..2

\* the names tempfile.mktemp may return
TmpNames == {"tmpA.jpg", "tmpB.jpg"}

TwoImages ==
    {<<>>, <<<<"John Carter", 90>>>>, <<<<"John Carter", 90>>, <<"jane@simpel.ai", 90>>>>}

\* what the language model answers to the attempts of one request
TwoAnswers == {BadJson, JsonObject(BaseObject)}

NoFile == [by |-> 0, image |-> <<>>]
TwoIdle == req = <<>> /\ files = <<>>

\* a variant of the download that leaves a file that is already there alone
Downloaded_KeepExisting(fs, path, r, image) ==
    IF fs[path] = NoFile THEN [fs EXCEPT ![path] = [by |-> r, image |-> image]] ELSE fs

\* line 209: file.download_to_drive(temp_path) writes the photo to the path,
\* replacing what is there
Downloaded(fs, path, r, image) == [fs EXCEPT ![path] = [by |-> r, image |-> image]]

\* lines 151-185 with a model that answers every attempt alike: the first
\* answer is accepted, or all attempts fail and the regex fallback answers
ExtractResult(tried, text) == IF tried.ok THEN tried.v ELSE RegexFallback(text)
ExtractWith(text, answer) ==
    IF Skips(text, client) THEN AllNA ELSE ExtractResult(TryBody(answer, text), text)

\* lines 217-221: no record without text, else the extracted record
PhData(ocr_text, answer) == IF IsBlank(ocr_text) THEN NoData ELSE ExtractWith(ocr_text, answer)

\* lines 197-208 up to the await of line 209: the user is signed in, the
\* processing message is sent, and mktemp returns a name that no file has
PhMktemp(r, name) ==
    /\ req[r].pc = "start"
    /\ files[name] = NoFile
    /\ req' = [req EXCEPT ![r].pc = "downloading", ![r].path = name]
    /\ UNCHANGED <<files, rows>>

\* the download of line 209 completes and lines 211-249 run without an await
\* in between: the file is written, the primary backend reads it within the
\* budget, the text is extracted and validated and the row is stored; the
\* task then awaits its reply (line 247 or 255)
PhProcess(r, out) ==
    /\ req[r].pc = "downloading"
    /\ files' = Downloaded(files, req[r].path, r, req[r].image)
    /\ req' = [req EXCEPT ![r].pc = "replying",
                          ![r].readBy = files'[req[r].path].by,
                          ![r].text = ocr_easy_bot(files'[req[r].path].image),
                          ![r].data = PhData(ocr_easy_bot(files'[req[r].path].image), req[r].answer)]
    /\ rows' = IF ~IsBlank(req'[r].text) /\ Appends(out)
               THEN Append(rows, Row(req'[r].data)) ELSE rows

\* lines 262-268, after the reply: the temporary file is removed if it exists
PhCleanup(r) ==
    /\ req[r].pc = "replying"
    /\ files' = [files EXCEPT ![req[r].path] = NoFile]
    /\ req' = [req EXCEPT ![r].pc = "done"]
    /\ UNCHANGED rows

(***************************************************************************)
(* The user store (json_manager)                                           *)
(***************************************************************************)
\* None
Null == "null"
\* no telegram_id was passed
NoId == "none"
UserIds == {"u7", "u8", "u9"}

\* a record as save_user writes it; is_authenticated is a key that only
\* update_user_field adds
SavedUser(id) ==
    [email |-> id \o "@example.com", sheet_id |-> "S1", access_token |-> "at0",
     refresh_token |-> "rt", display_name |-> "User " \o id, created_at |-> "t0",
     updated_at |-> "t0", is_authenticated |-> "absent"]

\* get_user: <<the record>>, or <<>> for None
get_user(us, telegram_id) == IF telegram_id \in DOMAIN us THEN <<us[telegram_id]>> ELSE <<>>

\* update_user_tokens: nothing is written for an unknown user; the refresh
\* token is replaced only by a truthy one
update_user_tokens(us, telegram_id, access_token, refresh_token) ==
    IF telegram_id \notin DOMAIN us THEN us
    ELSE [us EXCEPT ![telegram_id].access_token = access_token,
                    ![telegram_id].refresh_token = IF refresh_token # Null THEN refresh_token ELSE @,
                    ![telegram_id].updated_at = "t1"]

\* a variant that writes a record holding nothing but the field
update_user_field_Replacing(us, telegram_id, field, value) ==
    IF telegram_id \notin DOMAIN us THEN us
    ELSE [us EXCEPT ![telegram_id] =
             [k \in DOMAIN us[telegram_id] |->
                 IF k = field THEN value ELSE IF k = "updated_at" THEN "t1" ELSE Null]]

\* update_user_field: nothing is written for an unknown user
update_user_field(us, telegram_id, field, value) ==
    IF telegram_id \notin DOMAIN us THEN us
    ELSE [us EXCEPT ![telegram_id][field] = value, ![telegram_id].updated_at = "t1"]

(***************************************************************************)
(* The row store (gsheet_manager)                                          *)
(***************************************************************************)
\* the header row and the row of the i-th contact stored
Header ==
    [ts |-> 0, name |-> "Name", company |-> "Company", description |-> "Description",
     phone |-> "Phone", email |-> "Email"]
Contact(i) == [ts |-> i, name |-> "n", company |-> "c", description |-> "d", phone |-> "p", email |-> "e"]
Blank == [ts |-> -1, name |-> "", company |-> "", description |-> "", phone |-> "", email |-> ""]
SheetOf(n) == <<Header>> \o [i \in 1..n |-> Contact(i)]

\* what the API answers to a write request; "error" is requests raising
Answers == {"200", "401", "500", "error"}

\* what validate_and_get_sheet_id finds: the sheet answers 200; or it does
\* not and a new sheet is created; or it does not and none can be created,
\* which gives the old id back (new_id or sheet_id)
Validations == {"valid", "recreated", "kept"}

\* lines 104-122: the sheet the following request goes to, the id saved
Target(g, vo) == IF vo = "recreated" THEN <<Header>> ELSE g
validate_and_get_sheet_id(us, telegram_id, vo) ==
    IF vo = "recreated" /\ telegram_id # NoId
    THEN update_user_field(us, telegram_id, "sheet_id", "NEW") ELSE us

\* a variant of the retry that does not save the new token
WriteTry_Unsaved(first, refresh_token, refreshed, telegram_id, second, us) ==
    IF first = "401" /\ refresh_token # Null
    THEN IF refreshed
         THEN [ev |-> <<"send", "refresh", "send">>, users |-> us, ok |-> second = "200"]
         ELSE [ev |-> <<"send", "refresh">>, users |-> us, ok |-> FALSE]
    ELSE [ev |-> <<"send">>, users |-> us, ok |-> first = "200"]

\* lines 88-102, 161-175 and 210-222: the request is sent; after a 401 with
\* a refresh token the token is refreshed, saved if a telegram_id was passed,
\* and the request is sent once more; an exception ends the try block
WriteTry(first, refresh_token, refreshed, telegram_id, second, us) ==
    IF first = "401" /\ refresh_token # Null
    THEN IF refreshed
         THEN [ev |-> IF telegram_id # NoId THEN <<"send", "refresh", "update_user_tokens", "send">>
                      ELSE <<"send", "refresh", "send">>,
               users |-> IF telegram_id # NoId
                         THEN update_user_tokens(us, telegram_id, "at1", refresh_token) ELSE us,
               ok |-> second = "200"]
         ELSE [ev |-> <<"send", "refresh">>, users |-> us, ok |-> FALSE]
    ELSE [ev |-> <<"send">>, users |-> us, ok |-> first = "200"]

Returned(ret, w, g) == [ret |-> ret, raised |-> "", ev |-> w.ev, users |-> w.users, grid |-> g]
Raising(exc, w, g) == [ret |-> Null, raised |-> exc, ev |-> w.ev, users |-> w.users, grid |-> g]
NoWrite(us) == [ev |-> <<>>, users |-> us, ok |-> FALSE]

\* append_row, lines 77-102
append_row(g, us, access_token, row, refresh_token, telegram_id, vo, w) ==
    IF access_token = Null \/ row = <<>> THEN Raising("ValueError", NoWrite(us), g)
    ELSE Returned(w.ok, w, IF w.ok THEN Append(Target(g, vo), row) ELSE Target(g, vo))

\* the cell of a field in the row at a 1-based position of the grid, rows
\* that do not exist yet being blank
SetCell(g, pos, field, value) ==
    [i \in 1..(IF pos > Len(g) THEN pos ELSE Len(g)) |->
        IF i = pos THEN [(IF i <= Len(g) THEN g[i] ELSE Blank) EXCEPT ![field] = value]
        ELSE IF i <= Len(g) THEN g[i] ELSE Blank]

\* update_row, lines 149-175: the cell of row row_index + 2 is written
update_row(g, us, row_index, field, value, vo, w) ==
    IF field \notin Keys5 THEN Returned(FALSE, NoWrite(us), Target(g, vo))
    ELSE Returned(w.ok, w, IF w.ok THEN SetCell(Target(g, vo), row_index + 2, field, value)
                           ELSE Target(g, vo))

\* deleteDimension of the rows [start, start + 1) of the grid, 0-based;
\* beyond the rows with values the grid is empty
DeleteDimension(g, start) ==
    IF start + 1 <= Len(g) THEN SubSeq(g, 1, start) \o SubSeq(g, start + 2, Len(g)) ELSE g

\* sorted(set(row_indices), reverse=True)
RECURSIVE SortedDesc(_)
SortedDesc(S) ==
    IF S = {} THEN <<>>
    ELSE LET m == CHOOSE x \in S : \A y \in S : y <= x IN <<m>> \o SortedDesc(S \ {m})

\* lines 191-204 as the API applies them: one deleteDimension per index, in
\* the order of the list, with startIndex idx + 1
RECURSIVE BatchDelete(_, _)
BatchDelete(g, idxs) ==
    IF idxs = <<>> THEN g ELSE BatchDelete(DeleteDimension(g, Head(idxs) + 1), Tail(idxs))

\* delete_row called with an integer as row_indices (line 228): 0 is falsy
\* and returns 0 (line 183), any other makes set(row_indices) of line 190
\* raise TypeError
DeleteOne(n) == IF n = 0 THEN "" ELSE "TypeError"

\* lines 227-229: the fallback calls delete_row(…, idx + 1, …) for each index
FallbackRaises(row_indices) == \E idx \in row_indices : DeleteOne(idx + 1) # ""

\* delete_row, lines 177-230, with a set of indices
delete_row(g, us, row_indices, vo, w) ==
    IF row_indices = {} THEN Returned(0, NoWrite(us), g)
    ELSE IF w.ok
         THEN Returned(Cardinality(row_indices), w, BatchDelete(Target(g, vo), SortedDesc(row_indices)))
    ELSE IF FallbackRaises(row_indices) THEN Raising("TypeError", w, Target(g, vo))
    ELSE Returned(0, w, Target(g, vo))

\* get_rows, lines 128-147: the last num_rows rows below the header, oldest
\* first; nothing when the request fails
get_rows(g, num_rows, got) ==
    LET values == IF g # <<>> /\ g[1].ts = 0 THEN Tail(g) ELSE g
    IN  IF ~got THEN <<>>
        ELSE IF Len(values) > num_rows
             THEN SubSeq(values, Len(values) - num_rows + 1, Len(values)) ELSE values

PureIdle == vlog = <<>>
BotIdle == grid = <<>> /\ udata = <<>> /\ chat = <<>>
StoreIdle == users = <<>> /\ gs = [pc |-> "idle"]

\* a row-store function called on its own: the arguments, what the sheet
\* check finds, and what the API and the token endpoint answer
GsDone(fn, a, refresh_token, telegram_id, first, second, res) ==
    /\ gs' = [pc |-> "done", fn |-> fn, a |-> a, refresh_token |-> refresh_token,
              telegram_id |-> telegram_id, first |-> first, second |-> second,
              ret |-> res.ret, raised |-> res.raised, ev |-> res.ev, before |-> users]
    /\ users' = res.users
    /\ grid' = res.grid

AppendCall(access_token, row, refresh_token, telegram_id, vo, first, refreshed, second) ==
    /\ gs.pc = "idle"
    /\ GsDone("append_row", row, refresh_token, telegram_id, first, second,
              append_row(grid, users, access_token, row, refresh_token, telegram_id, vo,
                         WriteTry(first, refresh_token, refreshed, telegram_id, second,
                                  validate_and_get_sheet_id(users, telegram_id, vo))))

UpdateCall(row_index, field, refresh_token, telegram_id, vo, first, refreshed, second) ==
    /\ gs.pc = "idle"
    /\ GsDone("update_row", <<row_index, field>>, refresh_token, telegram_id, first, second,
              update_row(grid, validate_and_get_sheet_id(users, telegram_id, vo),
                         row_index, field, "new", vo,
                         WriteTry(first, refresh_token, refreshed, telegram_id, second,
                                  validate_and_get_sheet_id(users, telegram_id, vo))))

DeleteCall(row_indices, refresh_token, telegram_id, vo, first, refreshed, second) ==
    /\ gs.pc = "idle"
    /\ GsDone("delete_row", row_indices, refresh_token, telegram_id, first, second,
              delete_row(grid, users, row_indices, vo,
                         WriteTry(first, refresh_token, refreshed, telegram_id, second,
                                  validate_and_get_sheet_id(users, telegram_id, vo))))

\* what the validation request of validate_and_get_sheet_id is answered
\* ("error": requests raises), and what create_contact_sheet ends in: a new
\* sheet, a new sheet after a 401 and a token refresh, no sheet (None)
SheetAnswers == {"200", "401", "404", "error"}
Creations == {"created", "created_after_refresh", "failed"}

\* lines 106-107 and 115-122: which of the cases of Validations a call is,
\* for a stored sheet_id, an answer to the validation and an outcome of the
\* creation
ValidationOf(sheet_id, answer, creation) ==
    IF sheet_id # Null /\ answer = "200" THEN "valid"
    ELSE IF creation # "failed" THEN "recreated"
    ELSE "kept"

\* what validate_and_get_sheet_id returns: the id, the new id, or
\* 'new_id or sheet_id' (None for a user without a sheet)
ValidatedId(sheet_id, vo) ==
    IF vo = "recreated" THEN "NEW" ELSE sheet_id

\* create_contact_sheet, lines 13-75, as the user store sees it: the token
\* refreshed after a 401 is saved (line 37), and the id of the new sheet is
\* saved for a user who has a record (lines 65-69)
create_contact_sheet(us, refresh_token, telegram_id, creation) ==
    IF telegram_id = NoId THEN us
    ELSE IF creation = "created" THEN update_user_field(us, telegram_id, "sheet_id", "NEW")
    ELSE IF creation = "created_after_refresh" /\ refresh_token # Null
    THEN update_user_field(update_user_tokens(us, telegram_id, "at1", refresh_token),
                           telegram_id, "sheet_id", "NEW")
    ELSE us

\* validate_and_get_sheet_id called on its own for a stored sheet_id
ValidateCall(sheet_id, refresh_token, telegram_id, answer, creation) ==
    /\ gs.pc = "idle"
    /\ creation = "created_after_refresh" => refresh_token # Null
    /\ gs' = [pc |-> "done", fn |-> "validate_and_get_sheet_id", a |-> sheet_id,
              refresh_token |-> refresh_token, telegram_id |-> telegram_id,
              first |-> answer, second |-> creation,
              ret |-> ValidatedId(sheet_id, ValidationOf(sheet_id, answer, creation)),
              raised |-> "",
              ev |-> IF sheet_id # Null /\ answer = "200" THEN <<"validate">>
                     ELSE IF sheet_id = Null THEN <<"create">> ELSE <<"validate", "create">>,
              before |-> users]
    /\ users' = IF ValidationOf(sheet_id, answer, creation) = "recreated"
                THEN validate_and_get_sheet_id(
                         create_contact_sheet(users, refresh_token, telegram_id, creation),
                         telegram_id, "recreated")
                ELSE users
    /\ grid' = Target(grid, ValidationOf(sheet_id, answer, creation))

\* signout, src/bot.py:128-154: a user without a record is told so
SignoutUnknown(telegram_id) ==
    /\ gs.pc = "idle"
    /\ get_user(users, telegram_id) = <<>>
    /\ gs' = [pc |-> "done", fn |-> "signout", telegram_id |-> telegram_id,
              reply |-> "not_signed_in", before |-> users]
    /\ UNCHANGED users

\* lines 137-140: the three fields are cleared one call after the other
SignoutField(pc) ==
    CASE pc = "idle" -> <<"access_token", Null, "cleared1">>
      [] pc = "cleared1" -> <<"refresh_token", Null, "cleared2">>
      [] OTHER -> <<"is_authenticated", "false", "done">>

Signout(telegram_id) ==
    /\ gs.pc \in {"idle", "cleared1", "cleared2"}
    /\ IF gs.pc = "idle" THEN get_user(users, telegram_id) # <<>> ELSE gs.telegram_id = telegram_id
    /\ users' = update_user_field(users, telegram_id, SignoutField(gs.pc)[1], SignoutField(gs.pc)[2])
    /\ gs' = [pc |-> SignoutField(gs.pc)[3], fn |-> "signout", telegram_id |-> telegram_id,
              reply |-> "signed_out",
              before |-> IF gs.pc = "idle" THEN users ELSE gs.before]

\* src/main_fastapi.py:121, in the web process: a user who signs in again
\* gets new tokens saved; nobody completes a sign-in while their own
\* sign-out is being carried out
CallbackTokens(telegram_id) ==
    /\ telegram_id \in DOMAIN users
    /\ gs.pc \in {"cleared1", "cleared2"} => gs.telegram_id # telegram_id
    /\ users[telegram_id].access_token # "at2"
    /\ users' = update_user_tokens(users, telegram_id, "at2", "rt2")
    /\ UNCHANGED gs
(***************************************************************************)
(* Sign-in, sign-out and the commands of the bot (bot.py, main_fastapi.py) *)
(***************************************************************************)
\* what a handler did: its name, the sender, the reply shown, the requests
\* sent to the row store, and the handler that ran before it
NoCmd == [cmd |-> "", telegram_id |-> NoId, reply |-> "", calls |-> <<>>,
          prev |-> "", prevId |-> NoId]
NoSess == [out |-> {}, last |-> NoCmd]
Ran(cmd, telegram_id, reply_shown, sent) ==
    [cmd |-> cmd, telegram_id |-> telegram_id, reply |-> reply_shown, calls |-> sent,
     prev |-> sess.last.cmd, prevId |-> sess.last.telegram_id]

\* the requests of validate_and_get_sheet_id, src/gsheet_manager.py:104-122
ValidateEv(sheet_id, answer) ==
    IF sheet_id = Null THEN <<"create">>
    ELSE IF answer = "200" THEN <<"validate">> ELSE <<"validate", "create">>

\* the user store after validate_and_get_sheet_id
ValidateUsers(us, rec, telegram_id, answer, creation) ==
    IF ValidationOf(rec.sheet_id, answer, creation) = "recreated"
    THEN validate_and_get_sheet_id(
             create_contact_sheet(us, rec.refresh_token, telegram_id, creation),
             telegram_id, "recreated")
    ELSE us

\* what the API can answer to the token of a record: a request without a
\* token is not answered 200, and no sheet is created without a token
\* unless a refresh token gives a new one
Answerable(rec, answer, creation) ==
    /\ rec.access_token = Null => answer # "200" /\ creation # "created"
    /\ creation = "created_after_refresh" => rec.refresh_token # Null

\* start, src/bot.py:93-122: the sign-in prompt for a user without a record,
\* the main menu for every other user
start(us, telegram_id) ==
    IF get_user(us, telegram_id) = <<>> THEN "sign_in_prompt" ELSE "main_menu"

Start(telegram_id) ==
    /\ sess' = [sess EXCEPT !.last = Ran("start", telegram_id, start(users, telegram_id), <<>>)]
    /\ UNCHANGED <<users, gs>>

\* handle_photo, src/bot.py:195-200 and 229-260, for a photo whose contact
\* was extracted: the record read at line 197 is used to the end
handle_photo(us, telegram_id, answer, creation, first) ==
    IF get_user(us, telegram_id) = <<>>
    THEN [reply |-> "please_sign_in", calls |-> <<>>, users |-> us]
    ELSE LET rec == us[telegram_id]
             vo == ValidationOf(rec.sheet_id, answer, creation)
             us1 == ValidateUsers(us, rec, telegram_id, answer, creation)
             w == WriteTry(first, rec.refresh_token, TRUE, telegram_id, "200", us1)
         IN  IF ValidatedId(rec.sheet_id, vo) = Null
             THEN [reply |-> "could_not_extract",
                   calls |-> ValidateEv(rec.sheet_id, answer), users |-> us1]
             ELSE IF rec.access_token = Null
             THEN [reply |-> "could_not_extract",
                   calls |-> ValidateEv(rec.sheet_id, answer), users |-> us1]
             ELSE [reply |-> IF w.ok THEN "added" ELSE "could_not_extract",
                   calls |-> ValidateEv(rec.sheet_id, answer) \o <<"validate">> \o w.ev,
                   users |-> w.users]

Photo(telegram_id, answer, creation, first) ==
    /\ get_user(users, telegram_id) # <<>> => Answerable(users[telegram_id], answer, creation)
    /\ sess' = [sess EXCEPT !.last =
                   Ran("photo", telegram_id,
                       handle_photo(users, telegram_id, answer, creation, first).reply,
                       handle_photo(users, telegram_id, answer, creation, first).calls)]
    /\ users' = handle_photo(users, telegram_id, answer, creation, first).users
    /\ UNCHANGED gs

\* list_entries, src/bot.py:264-277: a user without a record or without a
\* sheet is turned away; get_rows validates the sheet and reads the values,
\* unless no sheet is left
list_entries(us, telegram_id, answer, creation, got) ==
    IF get_user(us, telegram_id) = <<>> \/ us[telegram_id].sheet_id = Null
    THEN [reply |-> "not_authenticated", calls |-> <<>>, users |-> us]
    ELSE [reply |-> IF got THEN "contacts" ELSE "empty",
          calls |-> ValidateEv(us[telegram_id].sheet_id, answer) \o <<"values">>,
          users |-> ValidateUsers(us, us[telegram_id], telegram_id, answer, creation)]

List(telegram_id, answer, creation, got) ==
    /\ get_user(users, telegram_id) # <<>> => Answerable(users[telegram_id], answer, creation)
    /\ get_user(users, telegram_id) # <<>> /\ users[telegram_id].access_token = Null => ~got
    /\ sess' = [sess EXCEPT !.last =
                   Ran("list", telegram_id,
                       list_entries(users, telegram_id, answer, creation, got).reply,
                       list_entries(users, telegram_id, answer, creation, got).calls)]
    /\ users' = list_entries(users, telegram_id, answer, creation, got).users
    /\ UNCHANGED gs

\* callback, src/main_fastapi.py:102-140, once the tokens "at2" and refresh
\* were obtained: the tokens are saved for a user who has a record with a
\* sheet; a sheet is created for every other; the welcome row is appended
\* to the sheet there is; the redirect is returned in every case
callback(us, telegram_id, refresh, creation, first) ==
    LET existing == get_user(us, telegram_id)
        reuse == existing # <<>> /\ existing[1].sheet_id # Null
        us1 == IF reuse THEN update_user_tokens(us, telegram_id, "at2", refresh)
               ELSE create_contact_sheet(us, refresh, telegram_id, creation)
        sheet_id == IF reuse THEN existing[1].sheet_id
                    ELSE IF creation = "failed" THEN Null ELSE "NEW"
        w == WriteTry(first, refresh, TRUE, telegram_id, "200", us1)
    IN  IF sheet_id = Null THEN [reply |-> "redirect", calls |-> <<"create">>, users |-> us1]
        ELSE [reply |-> "redirect",
              calls |-> (IF reuse THEN <<>> ELSE <<"create">>) \o <<"validate">> \o w.ev,
              users |-> w.users]

\* nobody completes a sign-in while their own sign-out is being carried out
Callback(telegram_id, refresh, creation, first) ==
    /\ gs.pc \in {"cleared1", "cleared2"} => gs.telegram_id # telegram_id
    /\ creation = "created_after_refresh" => refresh # Null
    /\ sess' = [out |-> sess.out \ {telegram_id},
                last |-> Ran("callback", telegram_id,
                             callback(users, telegram_id, refresh, creation, first).reply,
                             callback(users, telegram_id, refresh, creation, first).calls)]
    /\ users' = callback(users, telegram_id, refresh, creation, first).users
    /\ UNCHANGED gs

\* signout as one of the handlers of a session: the user is signed out once
\* the third field is written
SessSignout(telegram_id) ==
    /\ \/ SignoutUnknown(telegram_id)
       \/ Signout(telegram_id)
    /\ sess' = [out |-> IF gs'.reply = "signed_out" /\ gs'.pc = "done"
                        THEN sess.out \cup {telegram_id} ELSE sess.out,
                last |-> Ran("signout", telegram_id, gs'.reply, <<>>)]
(***************************************************************************)
(* Threads calling the user store (json_manager.py)                        *)
(***************************************************************************)
Threads == {"t1", "t2", "t3"}

\* save_user, lines 37-68: a record built anew, which keeps the
\* display_name and created_at of the record it replaces
save_user(us, telegram_id, access_token, refresh_token) ==
    [id \in DOMAIN us \cup {telegram_id} |->
        IF id # telegram_id THEN us[id]
        ELSE [SavedUser(id) EXCEPT !.access_token = access_token,
                                   !.refresh_token = refresh_token, !.updated_at = "t1"]]

\* the calls the threads make: the function, the id, two more arguments
JmCalls ==
    {[fn |-> "save_user", id |-> "u8", a |-> "at3", b |-> "rt3"],
     [fn |-> "update_user_tokens", id |-> "u7", a |-> "at2", b |-> "rt2"],
     [fn |-> "update_user_field", id |-> "u7", a |-> "sheet_id", b |-> "NEW"],
     [fn |-> "update_user_field", id |-> "u8", a |-> "sheet_id", b |-> "NEW"],
     [fn |-> "get_user", id |-> "u7", a |-> Null, b |-> Null]}

\* the store a call leaves when it runs alone on the store us
Apply(op, us) ==
    CASE op.fn = "save_user" -> save_user(us, op.id, op.a, op.b)
      [] op.fn = "update_user_tokens" -> update_user_tokens(us, op.id, op.a, op.b)
      [] op.fn = "update_user_field" -> update_user_field(us, op.id, op.a, op.b)
      [] OTHER -> us

\* what a call returns when it runs alone on the store us: True or False of
\* a writer, 'found' of get_user
Alone(op, us) == op.fn = "save_user" \/ op.id \in DOMAIN us

\* users.json: complete, or opened for writing and not yet written
Complete(us) == [complete |-> TRUE, users |-> us]
Truncated == [complete |-> FALSE, users |-> <<>>]

NoThread ==
    [pc |-> "idle", op |-> [fn |-> "", id |-> NoId, a |-> Null, b |-> Null],
     local |-> <<>>, ret |-> FALSE, got |-> <<>>, torn |-> FALSE, alone |-> FALSE]

\* a lock that does not exclude
LockIgnored(j) == TRUE

\* file_lock, line 10: 'with file_lock' goes on when no thread holds it
LockFree(j) == j.lock = "free"

\* a thread calls one of the functions and reaches 'with file_lock'
JmCall(t, op) ==
    /\ jm.th[t].pc = "idle"
    /\ jm' = [jm EXCEPT !.th[t].pc = "waiting", !.th[t].op = op]

\* lines 22, 39, 73 and 102; serial is the store the calls would leave if
\* each ran alone, in the order in which they took the lock
Acquire(t) ==
    /\ jm.th[t].pc = "waiting"
    /\ LockFree(jm)
    /\ jm' = [jm EXCEPT !.lock = t, !.th[t].pc = "locked",
                        !.th[t].alone = Alone(jm.th[t].op, jm.serial),
                        !.serial = Apply(jm.th[t].op, @)]

\* lines 23-31, 40-48, 74-83 and 103-112: the file is read and parsed. A file
\* that is open for writing reads as empty or as the beginning of a JSON
\* text, which json.loads rejects; 'return False' leaves the with block
JmRead(t, invalid) ==
    /\ jm.th[t].pc = "locked"
    /\ invalid => ~jm.file.complete
    /\ LET op == jm.th[t].op
           torn == ~jm.file.complete
           found == op.id \in DOMAIN jm.file.users
       IN  jm' = IF invalid
                 THEN [jm EXCEPT !.th[t].pc = "release", !.th[t].torn = TRUE]
                 ELSE IF op.fn = "get_user"
                 THEN [jm EXCEPT !.th[t].pc = "release", !.th[t].torn = torn,
                                 !.th[t].local = jm.file.users,
                                 !.th[t].ret = found,
                                 !.th[t].got = get_user(jm.file.users, op.id)]
                 ELSE IF op.fn # "save_user" /\ ~found
                 THEN [jm EXCEPT !.th[t].pc = "release", !.th[t].torn = torn,
                                 !.th[t].local = jm.file.users]
                 ELSE [jm EXCEPT !.th[t].pc = "modified", !.th[t].torn = torn,
                                 !.th[t].local = Apply(op, jm.file.users)]

\* lines 61, 90 and 117: open(USERS_FILE, "w") empties the file
Truncate(t) ==
    /\ jm.th[t].pc = "modified"
    /\ jm' = [jm EXCEPT !.file = Truncated, !.th[t].pc = "opened"]

\* lines 62, 91 and 118: json.dump, and the file is closed
Dump(t) ==
    /\ jm.th[t].pc = "opened"
    /\ jm' = [jm EXCEPT !.file = Complete(jm.th[t].local), !.th[t].pc = "release",
                        !.th[t].ret = TRUE]

\* the end of the with block; the function returns
Release(t) ==
    /\ jm.th[t].pc = "release"
    /\ jm' = [jm EXCEPT !.lock = "free", !.th[t].pc = "done"]

(***************************************************************************)
(* The chat of one signed-in user: edit and delete by displayed number     *)
(* (bot.py, lines 312-605)                                                 *)
(***************************************************************************)
\* the largest number of stored contacts, and of updates the user sends
MaxRows == 11
MaxUpdates == 5

\* num_rows of the get_rows calls of handle_edit_field, handle_edit_row_input
\* and handle_delete_rows_input
EditFieldRows == 10
EditRowRows == 50
DeleteRows == 100

\* str.split(c)
RECURSIVE SplitOn(_, _)
SplitOn(s, c) ==
    IF s = "" THEN <<"">>
    ELSE IF Head(s) = c THEN <<"">> \o SplitOn(Tail(s), c)
    ELSE <<Head(s) \o Head(SplitOn(Tail(s), c))>> \o Tail(SplitOn(Tail(s), c))

\* str.isdigit(), for ASCII text
isdigit(s) == s # "" /\ \A i \in 1..Len(s) : Ch(s, i) \in Digit

\* the number a string of decimal digits denotes
RECURSIVE NatOf(_, _)
NatOf(s, acc) ==
    IF s = "" THEN acc ELSE NatOf(Tail(s), 10 * acc + IndexIn(Head(s), DigitChars) - 1)

\* int(s) for text without a minus sign: surrounding whitespace and a
\* leading '+' are accepted, and single underscores between digits;
\* anything else raises ValueError
int(s) ==
    LET u == IF Strip(s) # "" /\ Head(Strip(s)) = "+" THEN Tail(Strip(s)) ELSE Strip(s)
    IN  IF /\ u # ""
           /\ \A i \in 1..Len(u) : Ch(u, i) \in Digit \cup {"_"}
           /\ Ch(u, 1) \in Digit /\ Ch(u, Len(u)) \in Digit
           /\ \A i \in 1..(Len(u) - 1) : ~(Ch(u, i) = "_" /\ Ch(u, i + 1) = "_")
        THEN [ok |-> TRUE, v |-> NatOf(RemoveChars(u, {"_"}), 0)]
        ELSE [ok |-> FALSE, v |-> 0]

\* lines 503-520, one part of the reply: the numbers it adds to indices and
\* whether it leaves valid as it is
PartIndices(part, total) ==
    IF Strip(part) = "" THEN [valid |-> TRUE, indices |-> {}]
    ELSE IF Len(SplitOn(Strip(part), "-")) = 2
    THEN IF /\ int(SplitOn(Strip(part), "-")[1]).ok /\ int(SplitOn(Strip(part), "-")[2]).ok
            /\ 1 <= int(SplitOn(Strip(part), "-")[1]).v
            /\ int(SplitOn(Strip(part), "-")[1]).v <= int(SplitOn(Strip(part), "-")[2]).v
            /\ int(SplitOn(Strip(part), "-")[2]).v <= total
         THEN [valid |-> TRUE,
               indices |-> int(SplitOn(Strip(part), "-")[1]).v .. int(SplitOn(Strip(part), "-")[2]).v]
         ELSE [valid |-> FALSE, indices |-> {}]
    ELSE IF isdigit(Strip(part)) /\ 1 <= NatOf(Strip(part), 0) /\ NatOf(Strip(part), 0) <= total
    THEN [valid |-> TRUE, indices |-> {NatOf(Strip(part), 0)}]
    ELSE [valid |-> FALSE, indices |-> {}]

\* lines 498-520: the parts between commas, one after another
ParseIndices(text, total) ==
    [valid |-> \A i \in 1..Len(SplitOn(text, ",")) : PartIndices(SplitOn(text, ",")[i], total).valid,
     indices |-> UNION {PartIndices(SplitOn(text, ",")[i], total).indices :
                            i \in 1..Len(SplitOn(text, ","))}]

\* line 535-536, displayed_to_actual: displayed number i + 1 is mapped to
\* len(rows) - i
ActualIndices(indices, total) == {total - (idx - 1) : idx \in indices}

\* context.user_data: 'mode', 'editing' (absent, True, or index and field)
\* and 'editing_row'
NoEditing == [kind |-> "none", index |-> -1, field |-> ""]
EditingTrue == [kind |-> "true", index |-> -1, field |-> ""]
EditingField(index, field) == [kind |-> "dict", index |-> index, field |-> field]
NoUserData == [mode |-> "", editing |-> NoEditing, editing_row |-> -1]

\* what the last update did: the handler, the reply text, the rows read,
\* the reply as parsed, the delete_row calls issued, the count reported,
\* the exception that left the handler, and the grid before
NoLast ==
    [h |-> "", text |-> "", total |-> 0, valid |-> FALSE, indices |-> {}, calls |-> <<>>,
     count |-> -1, raised |-> "", ok |-> FALSE, before |-> <<>>]
Did(h, text, g) == [NoLast EXCEPT !.h = h, !.text = text, !.before = g]

\* the chat so far: the number of updates, the handlers of the last three,
\* the row of the edit keyboard on screen, the number picked and the contact
\* it stood for in the list, the contact whose value the prompt showed
NoChat ==
    [n |-> 0, hist |-> <<>>, keyboard |-> -1, picked |-> 0, pickedTs |-> 0, shownTs |-> 0,
     last |-> NoLast]
Recent(hist, h) == IF Len(hist) < 3 THEN Append(hist, h) ELSE Append(Tail(hist), h)
AfterUpdate(c, last) == [c EXCEPT !.n = c.n + 1, !.hist = Recent(c.hist, last.h), !.last = last]

\* the fields of the buttons of the edit keyboard (lines 467-471), and the
\* fields handle_edit_field knows (line 327)
ButtonFields == {"name", "company", "desc", "phone", "email"}
field_map == Keys5

\* what update_row is given as the new value (line 365)
Edited(value) == value \o " (edited)"

\* the API answers and the sheet is there; the write may be refused
ChatWrite(first) == WriteTry(first, "rt", TRUE, "u7", "200", users)

\* start_edit_flow and start_delete_flow, lines 380-416
StartFlow(mode) ==
    /\ chat.n < MaxUpdates
    /\ udata' = [mode |-> mode, editing |-> NoEditing, editing_row |-> -1]
    /\ chat' = AfterUpdate(chat, Did(mode, "", grid))
    /\ UNCHANGED <<grid, users>>

\* handle_edit_row_input, lines 439-482
handle_edit_row_input(text, got_rows) ==
    IF isdigit(Strip(text)) /\ 1 <= NatOf(Strip(text), 0) /\ NatOf(Strip(text), 0) <= Len(got_rows)
    THEN /\ udata' = [mode |-> "", editing |-> EditingTrue,
                      editing_row |-> Len(got_rows) - 1 - (NatOf(Strip(text), 0) - 1)]
         /\ chat' = [AfterUpdate(chat, [Did("pick", text, grid) EXCEPT !.total = Len(got_rows), !.ok = TRUE])
                        EXCEPT !.keyboard = Len(got_rows) - 1 - (NatOf(Strip(text), 0) - 1),
                               !.picked = NatOf(Strip(text), 0),
                               !.pickedTs = got_rows[Len(got_rows) - (NatOf(Strip(text), 0) - 1)].ts,
                               !.shownTs = 0]
         /\ UNCHANGED <<grid, users>>
    ELSE /\ chat' = AfterUpdate(chat, [Did("pick", text, grid) EXCEPT !.total = Len(got_rows)])
         /\ UNCHANGED <<grid, users, udata>>

\* handle_delete_rows_input, lines 484-546; an exception of delete_row
\* leaves the handler before the mode is cleared
DeleteReply(text, total, parsed, res) ==
    /\ grid' = res.grid
    /\ users' = res.users
    /\ udata' = IF res.raised = "" THEN [udata EXCEPT !.mode = "", !.editing = NoEditing] ELSE udata
    /\ chat' = AfterUpdate(chat, [Did("delete", text, grid) EXCEPT
                                 !.total = total, !.valid = TRUE, !.indices = parsed.indices,
                                 !.calls = <<ActualIndices(parsed.indices, total)>>,
                                 !.count = IF res.raised = "" THEN res.ret ELSE -1,
                                 !.raised = res.raised, !.ok = res.raised = ""])

handle_delete_rows_input(text, got_rows, first) ==
    IF got_rows = <<>>
    THEN /\ udata' = [udata EXCEPT !.mode = ""]
         /\ chat' = AfterUpdate(chat, [Did("delete", text, grid) EXCEPT
                                      !.valid = ParseIndices(Strip(text), 0).valid,
                                      !.indices = ParseIndices(Strip(text), 0).indices])
         /\ UNCHANGED <<grid, users>>
    ELSE IF ~ParseIndices(Strip(text), Len(got_rows)).valid \/ ParseIndices(Strip(text), Len(got_rows)).indices = {}
    THEN /\ chat' = AfterUpdate(chat, [Did("delete", text, grid) EXCEPT
                                      !.total = Len(got_rows),
                                      !.valid = ParseIndices(Strip(text), Len(got_rows)).valid,
                                      !.indices = ParseIndices(Strip(text), Len(got_rows)).indices])
         /\ UNCHANGED <<grid, users, udata>>
    ELSE DeleteReply(text, Len(got_rows), ParseIndices(Strip(text), Len(got_rows)),
                     delete_row(grid, users,
                                ActualIndices(ParseIndices(Strip(text), Len(got_rows)).indices, Len(got_rows)),
                                "valid", ChatWrite(first)))

\* handle_text_edit, lines 345-378: 'editing' is True after a row was picked
\* and no button pressed, and subscripting it raises TypeError, which the
\* handler catches
TextEdited(text, res) ==
    /\ grid' = res.grid
    /\ users' = res.users
    /\ udata' = [udata EXCEPT !.editing = NoEditing]
    /\ chat' = AfterUpdate(chat, [Did("text_edit", text, grid) EXCEPT !.ok = res.ret])

handle_text_edit(text, first) ==
    IF udata.editing.kind = "true"
    THEN /\ udata' = [udata EXCEPT !.editing = NoEditing]
         /\ chat' = AfterUpdate(chat, [Did("text_edit", text, grid) EXCEPT !.raised = "TypeError"])
         /\ UNCHANGED <<grid, users>>
    ELSE TextEdited(text, update_row(grid, users, udata.editing.index,
                                     IF udata.editing.field = "desc" THEN "description"
                                     ELSE udata.editing.field,
                                     Edited(Strip(text)), "valid", ChatWrite(first)))

\* handle_text, lines 549-581: the mode first, then a pending edit, then
\* the general reply
handle_text(text, got, first) ==
    /\ chat.n < MaxUpdates
    /\ IF udata.mode = "await_edit_row"
       THEN handle_edit_row_input(text, get_rows(grid, EditRowRows, got))
       ELSE IF udata.mode = "await_delete_rows"
       THEN handle_delete_rows_input(text, get_rows(grid, DeleteRows, got), first)
       ELSE IF udata.editing.kind # "none"
       THEN handle_text_edit(text, first)
       ELSE /\ chat' = AfterUpdate(chat, Did("general", text, grid))
            /\ UNCHANGED <<grid, users, udata>>

\* handle_edit_field, lines 312-343, for a button of the edit keyboard on
\* screen (routed by handle_callback, line 599)
handle_edit_field(field, got_rows) ==
    /\ chat.n < MaxUpdates
    /\ chat.keyboard >= 0
    /\ IF chat.keyboard < Len(got_rows) /\ field \in field_map
       THEN /\ udata' = [udata EXCEPT !.editing = EditingField(chat.keyboard, field)]
            /\ chat' = [AfterUpdate(chat, [Did("prompt", field, grid) EXCEPT !.total = Len(got_rows), !.ok = TRUE])
                           EXCEPT !.shownTs = got_rows[chat.keyboard + 1].ts]
       ELSE /\ chat' = AfterUpdate(chat, [Did("prompt", field, grid) EXCEPT !.total = Len(got_rows)])
            /\ UNCHANGED udata
    /\ UNCHANGED <<grid, users>>

\* '/cancel': a command, which filters.TEXT & ~filters.COMMAND (line 639)
\* keeps from handle_text, and no CommandHandler is registered for it
\* (lines 633-640), so no handler runs
Cancel ==
    /\ chat.n < MaxUpdates
    /\ chat' = AfterUpdate(chat, Did("cancel", "/cancel", grid))
    /\ UNCHANGED <<grid, users, udata>>

SessIdle == sess = <<>>
LockIdle == jm = <<>>
SvcIdle == PureIdle /\ SessIdle /\ LockIdle /\ TwoIdle /\ BotIdle /\ StoreIdle

(***************************************************************************)
(* Specifications                                                          *)
(***************************************************************************)
\* the largest max_retries argument tried
MaxRetriesArg == 3

ExTexts == {"", "John Carter Vice President Sales", "contact: jane@simpel.ai"}
ExRaws == {NoRaw, JStr(""), JStr("Jane Doe +91 99090 48406")}

\* the steps of the worker thread
WorkerStep ==
    \/ WorkerFinish /\ UNCHANGED <<client, exVars, phVars, val, svcVars>>
    \/ WorkerFail /\ UNCHANGED <<client, exVars, phVars, val, svcVars>>

\* the steps of run_ocr_with_timeout after the submit
OcrStep ==
    \/ OcrResult /\ UNCHANGED <<client, exVars, phVars, val, svcVars>>
    \/ OcrResultRaises /\ UNCHANGED <<client, exVars, phVars, val, svcVars>>
    \/ OcrTimeout /\ UNCHANGED <<client, exVars, phVars, val, svcVars>>
    \/ \E out \in FallbackOutcomes : OcrFallback(out) /\ UNCHANGED <<client, exVars, phVars, val, svcVars>>
    \/ ExecutorExit /\ UNCHANGED <<client, exVars, phVars, val, svcVars>>

\* the steps of extract_with_llm after its entry, the model answering with
\* one of outcomes
ExSteps(outcomes) ==
    \/ ExInvoke /\ UNCHANGED <<client, ocrVars, phVars, val, svcVars>>
    \/ \E outcome \in outcomes : ExOutcome(outcome) /\ UNCHANGED <<client, ocrVars, phVars, val, svcVars>>
    \/ ExSleep /\ UNCHANGED <<client, ocrVars, phVars, val, svcVars>>
    \/ ExExhausted /\ UNCHANGED <<client, ocrVars, phVars, val, svcVars>>

\* the answers of the model tried inside a photo request
PhotoOutcomes ==
    {ApiError, PlainText, BadJson, JsonObject(BaseObject), JsonObject(AllNA),
     JsonObject([BaseObject EXCEPT !.name = JNull]),
     JsonObject([BaseObject EXCEPT !.phone = JStr("")])}

\* run_ocr_with_timeout called on its own, in either implementation
OcrCallDirect ==
    \E impl \in {"bot", "llm"}, image \in Images :
        OcrSubmit(impl, image) /\ UNCHANGED <<client, exVars, phVars, val, svcVars>>

OcrInit == OcrIdle /\ ExIdle /\ PhIdle /\ ValIdle /\ SvcIdle /\ client = TRUE /\ user = TRUE
OcrNext == OcrCallDirect \/ WorkerStep \/ OcrStep
OcrSpec == OcrInit /\ [][OcrNext]_vars

\* extract_with_llm called on its own
ExCallDirect ==
    \E text \in ExTexts, raw \in ExRaws, max_retries \in 0..MaxRetriesArg :
        ExCall(text, raw, max_retries) /\ UNCHANGED <<client, ocrVars, phVars, val, svcVars>>

ExInit == OcrIdle /\ ExIdle /\ PhIdle /\ ValIdle /\ SvcIdle /\ client \in BOOLEAN /\ user = TRUE
ExNext == ExCallDirect \/ ExSteps(ModelOutcomes)
ExSpec == ExInit /\ [][ExNext]_vars

\* one photo request
PhotoStep ==
    \/ PhNotSignedIn
    \/ \E image \in Images : PhRecover(image)
    \/ PhNoText
    \/ PhOcrRaised
    \/ PhExtract
    \/ \E out \in StoreOutcomes : PhStore(out)
    \/ PhExcept

\* a Field Validator called on its own
ValInit == OcrIdle /\ ExIdle /\ PhIdle /\ ValIdle /\ SvcIdle /\ client = TRUE /\ user = TRUE
ValNext == \E fn \in Keys5, cand \in ValCandidates, raw \in ValRaws : ValCall(fn, cand, raw)
ValSpec == ValInit /\ [][ValNext]_vars

\* the answers of the model tried between validator calls
DetOutcomes == {BadJson, JsonObject(BaseObject)}

\* Field Validators called in a row, around one call of extract_with_llm
DetInit == OcrIdle /\ ExIdle /\ PhIdle /\ ValIdle /\ SvcIdle /\ client = TRUE /\ user = TRUE
DetNext ==
    \/ \E c \in DetCalls : ValRepeat(c[1], c[2], c[3])
    \/ \E max_retries \in 0..1 :
          ExCall("John Carter Vice President Sales", NoRaw, max_retries)
              /\ UNCHANGED <<client, ocrVars, phVars, val, svcVars>>
    \/ ExSteps(DetOutcomes)
DetSpec == DetInit /\ [][DetNext]_vars

\* two photo requests of a signed-in user
TwoInit ==
    /\ OcrIdle /\ ExIdle /\ PhIdle /\ ValIdle /\ PureIdle /\ SessIdle /\ LockIdle /\ BotIdle /\ StoreIdle
    /\ client = TRUE /\ user = TRUE
    /\ req \in [Requests -> {[pc |-> "start", image |-> i, answer |-> a, path |-> "", readBy |-> 0,
                              text |-> "", data |-> NoData] :
                                 i \in TwoImages, a \in TwoAnswers}]
    /\ files = [n \in TmpNames |-> NoFile]
TwoRest == <<ocrVars, client, exVars, phPc, user, reply, val, vlog, grid, udata, chat, users, gs, sess, jm>>
TwoNext ==
    \/ \E r \in Requests, name \in TmpNames : PhMktemp(r, name) /\ UNCHANGED TwoRest
    \/ \E r \in Requests, out \in StoreOutcomes : PhProcess(r, out) /\ UNCHANGED TwoRest
    \/ \E r \in Requests : PhCleanup(r) /\ UNCHANGED TwoRest
TwoSpec == TwoInit /\ [][TwoNext]_vars

\* the row-store functions called on their own, for a sheet of three contacts
\* and a store that knows the user u7
StoreRest == <<ocrVars, client, exVars, phVars, val, vlog, req, files, udata, chat, sess, jm>>
StoreInit ==
    /\ OcrIdle /\ ExIdle /\ PhIdle /\ ValIdle /\ PureIdle /\ SessIdle /\ LockIdle /\ TwoIdle
    /\ client = TRUE /\ user = TRUE
    /\ udata = <<>> /\ chat = <<>>
    /\ grid = SheetOf(3)
    /\ users = [id \in {"u7"} |-> SavedUser(id)]
    /\ gs = [pc |-> "idle"]
StoreNext ==
    \E refresh_token \in {Null, "rt"}, telegram_id \in {NoId, "u7", "u8"}, vo \in Validations,
       first \in Answers, refreshed \in BOOLEAN, second \in Answers :
        \/ \E access_token \in {Null, "at0"}, row \in {<<>>, Contact(4)} :
              AppendCall(access_token, row, refresh_token, telegram_id, vo, first, refreshed, second)
                  /\ UNCHANGED StoreRest
        \/ \E row_index \in 0..3, field \in {"name", "desc"} :
              UpdateCall(row_index, field, refresh_token, telegram_id, vo, first, refreshed, second)
                  /\ UNCHANGED StoreRest
        \/ \E row_indices \in SUBSET (0..2) :
              DeleteCall(row_indices, refresh_token, telegram_id, vo, first, refreshed, second)
                  /\ UNCHANGED StoreRest
        \/ \E sheet_id \in {Null, "S1"}, answer \in SheetAnswers, creation \in Creations :
              ValidateCall(sheet_id, refresh_token, telegram_id, answer, creation)
                  /\ UNCHANGED StoreRest
StoreSpec == StoreInit /\ [][StoreNext]_vars

\* signout, while the web process saves the tokens of users signing in
UserRest == <<ocrVars, client, exVars, phVars, val, vlog, req, files, grid, udata, chat, sess, jm>>
UserInit ==
    /\ OcrIdle /\ ExIdle /\ PhIdle /\ ValIdle /\ PureIdle /\ SessIdle /\ LockIdle /\ TwoIdle /\ BotIdle
    /\ client = TRUE /\ user = TRUE
    /\ \E known \in SUBSET UserIds : users = [id \in known |-> SavedUser(id)]
    /\ gs = [pc |-> "idle"]
UserNext ==
    \/ \E telegram_id \in UserIds : SignoutUnknown(telegram_id) /\ UNCHANGED UserRest
    \/ \E telegram_id \in UserIds : Signout(telegram_id) /\ UNCHANGED UserRest
    \/ \E telegram_id \in UserIds : CallbackTokens(telegram_id) /\ UNCHANGED UserRest
UserSpec == UserInit /\ [][UserNext]_vars

\* sessions: users sign out, sign in again through the web process, and
\* send /start, photos and list requests in between
SessIds == {"u7"}
SessAnswers == {"200", "401"}
SessCreations == {"created", "failed"}
SessRest == <<ocrVars, client, exVars, phVars, val, vlog, req, files, grid, udata, chat, jm>>
SessInit ==
    /\ OcrIdle /\ ExIdle /\ PhIdle /\ ValIdle /\ PureIdle /\ LockIdle /\ TwoIdle /\ BotIdle
    /\ client = TRUE /\ user = TRUE
    /\ \E known \in {{}, {"u7"}, {"u7", "u8"}} : users = [id \in known |-> SavedUser(id)]
    /\ gs = [pc |-> "idle"]
    /\ sess = NoSess
SessNext ==
    \/ \E telegram_id \in SessIds : SessSignout(telegram_id) /\ UNCHANGED SessRest
    \/ \E telegram_id \in SessIds : Start(telegram_id) /\ UNCHANGED SessRest
    \/ \E telegram_id \in SessIds, answer \in SessAnswers, creation \in SessCreations,
          first \in SessAnswers :
          Photo(telegram_id, answer, creation, first) /\ UNCHANGED SessRest
    \/ \E telegram_id \in SessIds, answer \in SessAnswers, creation \in SessCreations,
          got \in BOOLEAN :
          List(telegram_id, answer, creation, got) /\ UNCHANGED SessRest
    \/ \E telegram_id \in SessIds, refresh \in {Null, "rt2"}, creation \in SessCreations,
          first \in SessAnswers :
          Callback(telegram_id, refresh, creation, first) /\ UNCHANGED SessRest
SessSpec == SessInit /\ [][SessNext]_vars

\* threads of one process, each calling one function of the user store
LockRest == <<ocrVars, client, exVars, phVars, val, vlog, req, files, grid, udata, chat, users, gs, sess>>
LockInit ==
    /\ OcrIdle /\ ExIdle /\ PhIdle /\ ValIdle /\ PureIdle /\ SessIdle /\ TwoIdle /\ BotIdle
    /\ StoreIdle
    /\ client = TRUE /\ user = TRUE
    /\ \E known \in {{}, {"u7"}} :
          jm = [file |-> Complete([id \in known |-> SavedUser(id)]),
                serial |-> [id \in known |-> SavedUser(id)],
                lock |-> "free", th |-> [t \in Threads |-> NoThread]]
LockNext ==
    \/ \E t \in Threads, op \in JmCalls : JmCall(t, op) /\ UNCHANGED LockRest
    \/ \E t \in Threads : Acquire(t) /\ UNCHANGED LockRest
    \/ \E t \in Threads, invalid \in BOOLEAN : JmRead(t, invalid) /\ UNCHANGED LockRest
    \/ \E t \in Threads : Truncate(t) /\ UNCHANGED LockRest
    \/ \E t \in Threads : Dump(t) /\ UNCHANGED LockRest
    \/ \E t \in Threads : Release(t) /\ UNCHANGED LockRest
LockSpec == LockInit /\ [][LockNext]_vars

\* the chat of the signed-in user u7 over sheets of several sizes; the user
\* sends the next update after the reply to the one before
ChatSizes == {0, 2, 4, MaxRows}
ChatTexts == {"1", "2", " 4 ", "1,3", "2-3", "0", "12", "a", "+1-2", "1,,2", "Jane"}
ChatRest == <<ocrVars, client, exVars, phVars, val, vlog, req, files, gs, sess, jm>>
ChatInit ==
    /\ OcrIdle /\ ExIdle /\ PhIdle /\ ValIdle /\ PureIdle /\ SessIdle /\ LockIdle /\ TwoIdle
    /\ client = TRUE /\ user = TRUE
    /\ \E n \in ChatSizes : grid = SheetOf(n)
    /\ udata = NoUserData
    /\ chat = NoChat
    /\ users = [id \in {"u7"} |-> SavedUser(id)]
    /\ gs = [pc |-> "idle"]
ChatNext ==
    \/ \E mode \in {"await_edit_row", "await_delete_rows"} : StartFlow(mode) /\ UNCHANGED ChatRest
    \/ \E text \in ChatTexts, got \in BOOLEAN, first \in {"200", "500"} :
          handle_text(text, got, first) /\ UNCHANGED ChatRest
    \/ \E field \in ButtonFields, got \in BOOLEAN :
          handle_edit_field(field, get_rows(grid, EditFieldRows, got)) /\ UNCHANGED ChatRest
    \/ Cancel /\ UNCHANGED ChatRest
ChatSpec == ChatInit /\ [][ChatNext]_vars

Init == OcrIdle /\ ExIdle /\ PhIdle /\ ValIdle /\ SvcIdle /\ client \in BOOLEAN /\ user \in BOOLEAN
Next == PhotoStep \/ WorkerStep \/ OcrStep \/ ExSteps(PhotoOutcomes)
Spec == Init /\ [][Next]_vars

(***************************************************************************)
(* Properties                                                              *)
(***************************************************************************)
\* the call returned the record an attempt produced (its only successful one)
ExReturnedByModel == exPc = "done" /\ calls = fails + 1

\* C1: the record returned by extract_with_llm has exactly the five keys
\* name, company, description, phone, email, and every value is a string.
C1_ExactlyFiveStringFields ==
    exPc = "done" =>
        /\ DOMAIN exRecord = Keys5
        /\ \A k \in DOMAIN exRecord : IsStr(exRecord[k])

\* C2: once the primary OCR worker has exceeded the time budget, the caller
\* of run_ocr_with_timeout is never held up by that worker: until the call
\* has returned, the calling thread always has a step it can take.
C2_TimeoutNeverAwaitsWorker ==
    (timedOut /\ ocrPc # "returned") => ENABLED OcrStep

\* C3: run_ocr_with_timeout never raises to its caller, and a call in which
\* a backend failed returns the empty string.
C3_OcrNeverRaises ==
    /\ ocrPc # "raised"
    /\ (ocrPc = "returned" /\ (worker = "failed" \/ fbOut = Raised)) => ocrRet = ""

\* C4: when the primary backend timed out, the value returned is exactly the
\* fallback backend's trimmed output, or the empty string if the fallback
\* raised, whatever the primary backend produced afterwards.
C4_TimeoutReturnsFallback ==
    (ocrPc = "returned" /\ timedOut) =>
        /\ fbOut # NoOut
        /\ ocrRet = (IF fbOut = Raised THEN "" ELSE Strip(fbOut[2]))

\* a timed-out call has returned the fallback's trimmed text although the
\* abandoned worker has produced another, non-empty text
C4_Witness ==
    /\ ocrPc = "returned" /\ timedOut
    /\ worker = "done" /\ workerText # "" /\ workerText # ocrRet
    /\ fbOut # Raised /\ fbOut # NoOut /\ ocrRet # fbOut[2] /\ ocrRet # ""

\* C5: extract_with_llm never raises to its caller: whatever the attempts end
\* in, no exception leaves the call; the loop variable stays within
\* max_retries, every attempt in flight is one of them, the loop head and the
\* sleep always have a step to take, and a finished call holds a record.
C5_ExtractNeverRaises ==
    /\ exPc # "raised"
    /\ attempt <= exMax
    /\ exPc \in {"awaiting", "sleeping"} => attempt < exMax
    /\ exPc = "loop" => (ENABLED ExInvoke \/ attempt = exMax)
    /\ exPc = "sleeping" => ENABLED ExSleep
    /\ exPc = "done" => Keys5 \subseteq DOMAIN exRecord

\* a call with non-empty text has returned a record after an attempt in which
\* a validator raised on a value of the model
C5_Witness ==
    /\ exPc = "done" /\ exText # "" /\ client
    /\ exLastExc \in {"AttributeError", "TypeError"}
    /\ Keys5 \subseteq DOMAIN exRecord

\* C6: within one call the model is invoked at most max_retries times, one
\* invocation per loop iteration, and an attempt that produced the returned
\* record is the last invocation.
C6_BoundedSequentialRetries ==
    /\ calls <= exMax
    /\ fails <= calls
    /\ exPc \in {"idle", "loop"} => (calls = attempt /\ fails = calls)
    /\ exPc = "awaiting" => (calls = attempt + 1 /\ fails = attempt)
    /\ exPc = "sleeping" => (calls = attempt + 1 /\ fails = calls)
    /\ exPc = "done" => \/ calls = attempt + 1 /\ fails = attempt
                        \/ calls = attempt /\ fails = calls

\* the model has been invoked max_retries = 3 times, the last attempt
\* producing the returned record
C6_Witness ==
    exPc = "done" /\ exMax = 3 /\ calls = 3 /\ fails = 2

\* C7: if every one of the max_retries attempts fails, the returned record
\* is, field by field, what each validator returns for candidate "N/A" and
\* the raw text (raw_text, or text when raw_text is absent or empty).
C7_ExhaustionIsRegexFallback ==
    (exPc = "done" /\ exText # "" /\ client /\ fails = exMax) =>
        exRecord =
            [name |-> JStr(validate_name(NA, RawOrText(exRaw, exText))),
             company |-> JStr(validate_company(NA, RawOrText(exRaw, exText))),
             description |-> JStr(validate_description(NA, RawOrText(exRaw, exText))),
             phone |-> JStr(validate_phone(NA, RawOrText(exRaw, exText))),
             email |-> JStr(validate_email(NA, RawOrText(exRaw, exText)))]

\* three attempts have failed and the record holds fields found in the raw
\* text by the validators
C7_Witness ==
    /\ exPc = "done" /\ exText # "" /\ client /\ exMax = 3 /\ fails = 3
    /\ exRecord["name"] = JStr("Jane Doe")
    /\ exRecord["phone"] = JStr("+91 99 0904 8406")

\* C8: with empty text or without a client the returned record has all five
\* fields "N/A", the model was not invoked and no validator was run.
C8_SkipReturnsAllNA ==
    (exPc = "done" /\ (exText = "" \/ ~client)) =>
        /\ exRecord = [k \in Keys5 |-> JStr("N/A")]
        /\ calls = 0
        /\ ~validated

\* without a client a call has returned the sentinel record for a text in
\* which the validators would have found an email address
C8_Witness ==
    /\ exPc = "done" /\ ~client /\ exText # ""
    /\ validate_email(NA, RawOrText(exRaw, exText)) # NA
    /\ exRecord["email"] = JStr(NA)

\* C9: in a record produced from an accepted JSON object, each of the five
\* fields is the value of its own validator applied to the model's value
\* after clean_markdown ("N/A" for a missing key).
C9_CleanedThenValidated ==
    ExReturnedByModel =>
        \A k \in Keys5 :
            /\ IsStr(Get(exData, k))
            /\ exRecord[k] =
                   JStr(Validator(k, clean_markdown(Get(exData, k)[2]), RawOrText(exRaw, exText)))

\* the model's name came wrapped in bold markers and the returned name is
\* the title-cased text between them
C9_Witness ==
    /\ ExReturnedByModel
    /\ Get(exData, "name") = JStr("**Jane Doe**")
    /\ exRecord["name"] = JStr("Jane Doe")
    /\ exRecord["email"] = JStr("jane@simpel.ai")

\* C10: in a photo request, blank recovered text ends the request in the
\* failed state with the extractor never called and no row appended; the
\* extractor is called only after text recovery has returned, and a row is
\* appended only after the extractor has returned.
C10_StagesInOrder ==
    /\ (ocrPc = "returned" /\ Strip(ocrRet) = "") =>
           /\ exPc = "idle"
           /\ rows = <<>>
           /\ phPc \in {"recovering", "except", "failed"}
           /\ phPc = "recovering" => ENABLED PhNoText
    /\ exPc # "idle" => (ocrPc = "returned" /\ exText = ocrRet)
    /\ rows # <<>> => (exPc = "done" /\ rows = <<Row(exRecord)>>)

\* a request whose recovered text was whitespace only has failed
C10_Witness ==
    /\ phPc = "failed" /\ ocrPc = "returned"
    /\ ocrRet # "" /\ Strip(ocrRet) = ""
    /\ exPc = "idle" /\ rows = <<>>

\* a request whose text was recovered and extracted has appended its row
C10_WitnessAppended ==
    phPc = "done" /\ Len(rows) = 1 /\ exPc = "done" /\ ocrPc = "returned"

\* C11: in the recover/extract part of a photo request the only failure shown
\* to the user is blank recovered text: a request that fails before the
\* extractor is called has recovered text that is empty or whitespace only.
C11_OnlyRecognitionFailureSurfaces ==
    (phPc \in {"except", "failed"} /\ exPc = "idle") =>
        (ocrPc = "returned" /\ Strip(ocrRet) = "")

\* C12: a Field Validator called with any value a model can put in a field
\* (a string, the empty string, null, a number) returns a string.
C12_ValidatorsNeverRaise ==
    val.pc = "done" => (val.out.ok /\ IsStr(val.out.v))

\* a direct call of validator fn with a string candidate has returned
ValReturned(fn) == val.pc = "done" /\ val.fn = fn /\ IsStr(val.cand) /\ val.out.ok

\* the first phone-shaped run of s, parentheses removed ("" when there is none)
FirstRunIn(s, m) == IF m = NoMatch THEN "" ELSE Group0(s, m)
FirstRunOf(s) == FirstRunIn(s, Search(PHONE_REGEX, s))
FirstRun(s) == FirstRunOf(RemoveChars(s, {"(", ")"}))

\* the country code is the first n digits of d: "91" and "1" when d starts
\* with them, else one to three digits
IsCountryLen(d, n) ==
    IF SubSeq(d, 1, 2) = "91" THEN n = 2
    ELSE IF SubSeq(d, 1, 1) = "1" THEN n = 1
    ELSE n \in 1..3

\* out is "+<c>" and the digits r in the grouping of country c
IsGrouped(out, c, r) ==
    IF c = "91"
    THEN Len(r) = 10 /\ out = "+91 " \o SubSeq(r, 1, 2) \o " " \o SubSeq(r, 3, 6) \o " " \o SubSeq(r, 7, 10)
    ELSE IF c = "1"
    THEN Len(r) = 10 /\ out = "+1-" \o SubSeq(r, 1, 3) \o "-" \o SubSeq(r, 4, 6) \o "-" \o SubSeq(r, 7, 10)
    ELSE Len(r) >= 7 /\ out = "+" \o c \o " " \o SubSeq(r, 1, 3) \o " " \o SubSeq(r, 4, 6)
                                  \o " " \o SubSeq(r, 7, Len(r))

IsGroupedSplit(out, d) ==
    \E n \in 1..3 :
        IsCountryLen(d, n) /\ IsGrouped(out, SubSeq(d, 1, n), SubSeq(d, n + 1, Len(d)))

\* grouped when ten digits remain after the country code, else "+<c> <r>"
IsFormattedSplit(out, d) ==
    \E n \in 1..3 :
        /\ IsCountryLen(d, n)
        /\ IF Len(d) - n = 10
           THEN IsGrouped(out, SubSeq(d, 1, n), SubSeq(d, n + 1, Len(d)))
           ELSE out = "+" \o SubSeq(d, 1, n) \o " " \o SubSeq(d, n + 1, Len(d))

PhoneExamples ==
    /\ val.cand = JStr("+1-415-555-2671") => val.out.v = JStr("+1-415-555-2671")
    /\ val.cand = JStr("+91 99090 48406") => val.out.v = JStr("+91 99 0904 8406")

\* the candidate of a returned validate_phone call holds a first run of 7 or
\* more digits
PhoneRunCase == ValReturned("phone") /\ Len(DigitsOf(FirstRun(val.cand[2]))) >= 7

\* C13, as stated: a candidate whose phone-shaped run has 7 digits or more is
\* returned as '+<country>' and the remaining digits grouped by country
\* (91: 2, 4, 4; 1: '+1-XXX-XXX-XXXX'; other: 3, 3 and the rest).
C13_PhoneGroupedByCountry ==
    PhoneRunCase =>
        (PhoneExamples /\ IsGroupedSplit(val.out.v[2], DigitsOf(FirstRun(val.cand[2]))))

\* C13, amended: the digits after the country code are grouped by country
\* only when exactly ten of them remain (other countries: 3, 3, 4); otherwise
\* the result is '+<country> <remaining digits>' with the digits ungrouped.
C13_PhoneGroupedWhenTenRemain ==
    PhoneRunCase =>
        (PhoneExamples /\ IsFormattedSplit(val.out.v[2], DigitsOf(FirstRun(val.cand[2]))))

\* a ten-digit number without country code came back with its first digit as
\* country and the nine others ungrouped
C13_Witness ==
    /\ ValReturned("phone")
    /\ val.cand = JStr("(415) 555-2671")
    /\ val.out.v = JStr("+4 155552671")

\* the phone-shaped runs among found that have 7 digits or more
LongRuns(found) == SelectSeq(found, LAMBDA c : Len(DigitsOf(c)) >= 7)

\* the runs with a leading '+' if there are any, else all runs
PreferredRuns(runs, with_plus) == IF with_plus # <<>> THEN with_plus ELSE runs

\* the runs of preferred that no other run beats in number of digits
MostDigits(preferred) ==
    {preferred[i] : i \in {j \in DOMAIN preferred :
        \A k \in DOMAIN preferred : Len(DigitsOf(preferred[k])) <= Len(DigitsOf(preferred[j]))}}

\* out is the best of runs, formatted; nothing is said when there is no run
IsBestRunFormatted(out, runs) ==
    runs # <<>> =>
        out \in {FormatPhone(c) :
                    c \in MostDigits(PreferredRuns(runs, SelectSeq(runs, LAMBDA c : Head(c) = "+")))}

\* C14: with candidate "N/A", validate_phone returns the formatted run of the
\* raw text that has the most digits among the runs of 7 digits or more with
\* a leading '+' (among all such runs when none has a '+'); so it returns
\* "N/A" only when the raw text has no run of 7 digits or more.
C14_BestRunOfRawText ==
    (ValReturned("phone") /\ val.cand = JStr(NA)) =>
        IsBestRunFormatted(val.out.v[2], LongRuns(FindAll(PHONE_REGEX, val.raw)))

\* C15: with candidate "N/A" and a raw text that holds the phrase
\* 'John Carter' followed by the phrase 'Vice President Sales',
\* validate_description returns the second phrase, 'Vice President Sales'.
C15_DescriptionIsSecondPhrase ==
    (/\ ValReturned("description") /\ val.cand = JStr(NA)
     /\ val.raw \in {"John Carter Vice President Sales", "John Carter, Vice President Sales"})
        => val.out.v = JStr("Vice President Sales")

\* the domain of an email address, dots replaced by spaces, title-cased
HumanizedDomain(address) == Title(DotsToSpaces(AfterAt(address)))

\* out is the humanized domain of the first email address of raw (m its
\* match) if there is one, else the first capitalized company phrase, else "N/A"
IsCompanyFallback(out, raw, m, phrases) ==
    IF m # NoMatch THEN out = HumanizedDomain(Group0(raw, m))
    ELSE IF phrases # <<>> THEN out = Head(phrases)
    ELSE out = NA

\* C16: with candidate "N/A", validate_company returns the humanized domain
\* of the first email address of the raw text when there is one
\* ('contact: jane@simpel.ai' gives 'Simpel Ai'), the first capitalized
\* company phrase only when the raw text holds no email address, and "N/A"
\* only when it holds neither.
C16_CompanyFromEmailDomainFirst ==
    (ValReturned("company") /\ val.cand = JStr(NA)) =>
        /\ IsCompanyFallback(val.out.v[2], val.raw, Search(EMAIL_REGEX, val.raw),
                             FindAll(COMPANY_REGEX, val.raw))
        /\ val.raw = "contact: jane@simpel.ai" => val.out.v = JStr("Simpel Ai")
        /\ val.raw = "Acme Corp" => val.out.v = JStr("Acme Corp")
        /\ val.raw = "" => val.out.v = JStr(NA)

\* the raw text holds a capitalized company phrase before an email address
\* and the humanized domain was returned
C16_Witness ==
    /\ ValReturned("company") /\ val.cand = JStr(NA)
    /\ val.raw = "Acme Corp contact: jane@simpel.ai"
    /\ val.out.v = JStr("Simpel Ai")

\* one of the ends es of a match is position n
HasEnd(es, n) == \E i \in DOMAIN es : es[i] = n

\* s is, from its first to its last character, an email address
IsWholeEmail(s) == HasEnd(Ends(EMAIL_REGEX, s, 0), Len(s))

\* C17: the result of validate_email is always either "N/A" or a lower-case
\* string that is in its entirety a well-formed email address.
C17_EmailIsWholeAddressOrNA ==
    ValReturned("email") =>
        \/ val.out.v = JStr(NA)
        \/ /\ val.out.v[2] = StrLower(val.out.v[2])
           /\ IsWholeEmail(val.out.v[2])

\* some phone-shaped run of s has 7 digits or more
HasLongRun(s) == LongRuns(FindAll(PHONE_REGEX, s)) # <<>>

\* C18: when the candidate of validate_phone holds no phone-shaped run of 7
\* digits or more and the raw text (parentheses removed) holds one, the
\* result is the formatted number of the raw text, never "N/A".
C18_PhoneBackfilledFromRawText ==
    (/\ ValReturned("phone")
     /\ ~HasLongRun(val.cand[2])
     /\ ValidRuns(val.raw) # <<>>)
        => /\ val.out.v # JStr(NA)
           /\ IsBestRunFormatted(val.out.v[2], ValidRuns(val.raw))

\* C19: every field of a record returned by extract_with_llm is a string
\* that is "N/A" or not blank: no field is empty or whitespace only.
C19_FieldsNeverBlank ==
    exPc = "done" =>
        \A k \in Keys5 : IsStr(exRecord[k]) /\ Strip(exRecord[k][2]) # ""

\* the sanitized form of the wrapped and the unchanged values of the claim
Unwrapped ==
    [v \in {"**Jane Doe**", "*x*", NA, ""} |->
        CASE v = "**Jane Doe**" -> "Jane Doe"
          [] v = "*x*" -> "x"
          [] OTHER -> v]

RECURSIVE ConfidentFrom(_, _)
ConfidentFrom(dets, i) ==
    IF i > Len(dets) THEN <<>>
    ELSE (IF dets[i][2] > ConfThreshold THEN <<dets[i][1]>> ELSE <<>>) \o ConfidentFrom(dets, i + 1)

\* C21: when the primary OCR backend completes within the budget, the text
\* returned is exactly the detected fragments whose confidence is strictly
\* greater than 0.5, in detection order, joined by single spaces, and the
\* empty string when nothing was detected; this for both implementations of
\* run_ocr_with_timeout.
C21_ReturnsConfidentFragments ==
    (ocrPc = "returned" /\ ~timedOut /\ worker = "done") =>
        ocrRet = JoinSpace(ConfidentFrom(ocrImage, 1))

\* two validator calls, the earlier remembered or the latest, with the same
\* validator, candidate and raw text
SameValCall(a, b) == a.fn = b.fn /\ a.cand = b.cand /\ a.raw = b.raw

\* the validator calls made so far, the latest included
ValCallsMade == IF val.pc = "done" THEN Append(vlog, val) ELSE vlog

AloneText(image) == ocr_easy_bot(image)
AloneData(image, answer) == PhData(ocr_easy_bot(image), answer)

\* C23: two photo requests handled in any interleaving are independent: the
\* text recovered and the record produced for a request are those of its own
\* image and its own model answers, and the file its text was recovered from
\* was written by the request itself.
C23_RequestsIndependent ==
    \A r \in Requests :
        req[r].pc \in {"replying", "done"} =>
            /\ req[r].readBy = r
            /\ req[r].text = AloneText(req[r].image)
            /\ req[r].data = AloneData(req[r].image, req[r].answer)

\* both requests were given the same temporary name, the second one wrote
\* its photo over the first one's file, and each has the record of its own
\* image
C23_Witness ==
    /\ \A r \in Requests : req[r].pc = "done"
    /\ req[1].path = req[2].path
    /\ req[1].image # req[2].image
    /\ req[1].data # req[2].data
    /\ Len(rows) = 2 /\ rows[1] = Row(req[2].data)

\* C25: delete_row never raises and returns a count between 0 and the number
\* of distinct indices it was given, whatever the batch request ends in.
C25_DeleteRowReturnsCount ==
    (gs.pc = "done" /\ gs.fn = "delete_row") =>
        /\ gs.raised = ""
        /\ gs.ret \in 0..Cardinality(gs.a)

\* C29: signout clears only the authentication data of the user signing
\* out: every step of it leaves the other users' records and the user's
\* sheet_id, email, display_name and created_at as they are, when it is done
\* access_token and refresh_token are null and is_authenticated is false, and
\* for a user without a record the store is not written.
C29_SignoutClearsOnlyAuth ==
    [][gs' # gs =>
          IF gs'.reply = "not_signed_in" THEN users' = users
          ELSE /\ DOMAIN users' = DOMAIN users
               /\ \A o \in DOMAIN users \ {gs'.telegram_id} : users'[o] = users[o]
               /\ \A k \in {"sheet_id", "email", "display_name", "created_at"} :
                      users'[gs'.telegram_id][k] = users[gs'.telegram_id][k]
               /\ gs'.pc = "done" =>
                      /\ users'[gs'.telegram_id].access_token = Null
                      /\ users'[gs'.telegram_id].refresh_token = Null
                      /\ users'[gs'.telegram_id].is_authenticated = "false"]_vars

\* u7 has been signed out while u8 signed in again: u7's tokens are cleared,
\* the rest of u7's record and u8's new tokens are in the store
C29_Witness ==
    /\ gs.pc = "done" /\ gs.reply = "signed_out" /\ gs.telegram_id = "u7"
    /\ DOMAIN users = {"u7", "u8"}
    /\ users["u7"] = [SavedUser("u7") EXCEPT !.access_token = Null, !.refresh_token = Null,
                                             !.is_authenticated = "false", !.updated_at = "t1"]
    /\ gs.before["u8"].access_token = "at0" /\ users["u8"].access_token = "at2"

\* the sends among the requests of a call
Sends(ev) == Len(SelectSeq(ev, LAMBDA e : e = "send"))

\* what C30 says of a finished append_row or update_row, the saving of the
\* new token being required when saved is TRUE
RetriesBoundedly(saved) ==
    /\ Sends(gs.ev) <= 2
    /\ Sends(gs.ev) = 2 =>
          /\ gs.first = "401" /\ gs.refresh_token # Null
          /\ SelectSeq(gs.ev, LAMBDA e : e # "update_user_tokens") = <<"send", "refresh", "send">>
          /\ saved => /\ gs.telegram_id \in DOMAIN users
                      /\ users[gs.telegram_id].access_token = "at1"
    /\ (gs.raised = "" /\ gs.ret) =>
          \/ Sends(gs.ev) = 1 /\ gs.first = "200"
          \/ Sends(gs.ev) = 2 /\ gs.second = "200"
    /\ gs.ev = <<"send", "refresh">> => (gs.raised = "" /\ ~gs.ret)

\* C30 as stated: append_row and update_row send the write at most twice, the
\* second time only after a 401 with a refresh token and one refresh whose
\* new access token has been saved for the user; they return True only if a
\* send was answered 200, and False when the refresh fails.
C30_RetryAfterSavedRefresh ==
    (gs.pc = "done" /\ gs.fn \in {"append_row", "update_row"}) => RetriesBoundedly(TRUE)

\* C30, amended: as above, the new access token being saved when a
\* telegram_id was passed and the user has a record in the store.
C30_RetryAfterRefresh ==
    (gs.pc = "done" /\ gs.fn \in {"append_row", "update_row"}) =>
        RetriesBoundedly(gs.telegram_id \in DOMAIN gs.before)

\* append_row was answered 401, refreshed the token of a known user, saved
\* it and was answered 200 the second time
C30_Witness ==
    /\ gs.pc = "done" /\ gs.fn = "append_row" /\ gs.raised = "" /\ gs.ret
    /\ gs.ev = <<"send", "refresh", "update_user_tokens", "send">>
    /\ gs.telegram_id = "u7" /\ gs.before["u7"].access_token = "at0"
    /\ users["u7"].access_token = "at1"
    /\ Len(grid) = 5

\* the contacts of a grid by their timestamps, the k-th newest of them, and
\* the contacts of a grid that are not in, or not the same in, another
ContactsOf(g) == {g[i].ts : i \in 2..Len(g)}
KthNewest(g, k) == g[Len(g) - (k - 1)].ts
RowsOf(g) == {g[i] : i \in 1..Len(g)}
Removed(before, after) == {r.ts : r \in RowsOf(before)} \ {r.ts : r \in RowsOf(after)}
Touched(before, after) == {r.ts : r \in RowsOf(before) \ RowsOf(after)}

\* C24: when a valid set of displayed numbers has been submitted in delete
\* mode and the deletion reported, the contacts removed are exactly the k-th
\* newest for the numbers k submitted, the header stays, and the count
\* reported is the number of rows removed.
C24_DeletesSelectedContacts ==
    (chat.last.h = "delete" /\ chat.last.ok) =>
        /\ Removed(chat.last.before, grid) = {KthNewest(chat.last.before, k) : k \in chat.last.indices}
        /\ Touched(chat.last.before, grid) = Removed(chat.last.before, grid)
        /\ chat.last.count = Cardinality(Removed(chat.last.before, grid))

\* C26: when the user has picked displayed number k, pressed a field button,
\* been prompted and sent a value that was written, the contact whose value
\* the prompt showed and the only contact changed are the k-th newest.
C26_EditsSelectedContact ==
    (chat.hist = <<"pick", "prompt", "text_edit">> /\ chat.last.ok) =>
        /\ chat.pickedTs = KthNewest(chat.last.before, chat.picked)
        /\ chat.shownTs = chat.pickedTs
        /\ Touched(chat.last.before, grid) = {chat.pickedTs}
        /\ Len(grid) = Len(chat.last.before)

\* C27: after the prompt for a new value, /cancel clears the editing state,
\* and the text message sent next is not written into the contact.
C27_CancelAbortsEdit ==
    /\ (Len(chat.hist) >= 2 /\ chat.hist[Len(chat.hist) - 1] = "prompt" /\ chat.last.h = "cancel"
            /\ chat.shownTs # 0)
           => udata.editing = NoEditing
    /\ (Len(chat.hist) = 3 /\ chat.hist[1] = "prompt" /\ chat.hist[2] = "cancel" /\ chat.shownTs # 0
            /\ chat.last.text \in ChatTexts)
           => grid = chat.last.before

\* C28: a reply in delete mode with a malformed or out-of-range part, or no
\* number at all, issues no delete and leaves the mode 'await_delete_rows';
\* a reply of which every part is valid issues exactly one delete, for the
\* contacts of the numbers parsed, and clears the mode.
C28_DeleteReplyParsed ==
    chat.last.h = "delete" =>
        IF chat.last.valid /\ chat.last.indices # {}
        THEN /\ Len(chat.last.calls) = 1
             /\ Cardinality(chat.last.calls[1]) = Cardinality(chat.last.indices)
             /\ udata.mode = ""
        ELSE /\ chat.last.calls = <<>>
             /\ udata.mode = "await_delete_rows"

\* C32: pressing any of the five field buttons of the edit menu for a row
\* that is among the rows handle_edit_field reads ends with the editing
\* state set to that row and the field of the button, and the user prompted
\* for a new value.
C32_FieldButtonsAccepted ==
    (chat.last.h = "prompt" /\ chat.keyboard < chat.last.total) =>
        /\ chat.last.ok
        /\ udata.editing.kind = "dict"
        /\ udata.editing.index = chat.keyboard
        /\ udata.editing.field =
               (IF chat.last.text = "desc" THEN "description" ELSE chat.last.text)

\* C33: 'mode' and 'editing' are never both set, and a text message sent in
\* answer to an edit prompt is never handled as a list of rows to delete.
C33_OneFlowPending ==
    /\ ~(udata.mode # "" /\ udata.editing # NoEditing)
    /\ (Len(chat.hist) >= 2 /\ chat.hist[Len(chat.hist) - 1] = "prompt" /\ chat.shownTs # 0)
           => chat.last.h # "delete"

\* the runs validate_phone may format: the first run of the candidate when it
\* has one, else the runs of the raw text with the most digits among those of
\* 7 digits or more, the ones with a leading '+' first
SelectedRuns(run, runs) ==
    IF run # "" THEN {run}
    ELSE MostDigits(PreferredRuns(runs, SelectSeq(runs, LAMBDA c : Head(c) = "+")))

\* C38: a value returned by validate_phone is "N/A" or starts with '+' and
\* has, in order, exactly the digits of the selected run, 7 or more of them.
C38_PhoneKeepsDigits ==
    ValReturned("phone") =>
        \/ val.out.v = JStr(NA)
        \/ /\ Head(val.out.v[2]) = "+"
           /\ Len(DigitsOf(val.out.v[2])) >= 7
           /\ \E run \in SelectedRuns(FirstRun(val.cand[2]),
                                      LongRuns(FindAll(PHONE_REGEX, RemoveChars(val.raw, {"(", ")"})))) :
                  DigitsOf(val.out.v[2]) = DigitsOf(run)

\* thirteen digits came back as a three-digit country and ten digits grouped
C38_Witness ==
    /\ ValReturned("phone")
    /\ val.cand = JStr("9876543210123")
    /\ val.out.v = JStr("+987 654 321 0123")

\* a run of the raw text was selected for a candidate without one
C38_WitnessRaw ==
    /\ ValReturned("phone")
    /\ val.cand = JStr(NA) /\ val.raw = "call 5551234 or +1 415 555 2671"
    /\ val.out.v = JStr("+1-415-555-2671")

\* the final messages of a photo request among the replies
Finals(msgs) ==
    SelectSeq(msgs, LAMBDA m : m \in {"please_sign_in", "added", "could_not_extract"})

\* C37: a finished photo request has shown exactly one final message; it is
\* the success message if and only if the row was appended, and the failure
\* message only when no row was appended.
C37_OutcomeAgreesWithStore ==
    phPc \in {"done", "failed"} =>
        /\ Len(Finals(reply)) = 1
        /\ (Finals(reply) = <<"added">>) <=> (rows # <<>>)
        /\ (Finals(reply) = <<"could_not_extract">>) => (rows = <<>>)

\* C36: validate_and_get_sheet_id creates no sheet and leaves the stored
\* sheet_id as it is when the validation is answered 401 or fails in
\* transport, and the id it returns is one whose validation was answered 200
\* or that of a newly created sheet.
C36_SheetReplacedOnlyWhenGone ==
    (gs.pc = "done" /\ gs.fn = "validate_and_get_sheet_id" /\ gs.a # Null) =>
        /\ gs.first \in {"401", "error"} =>
               /\ gs.ev = <<"validate">>
               /\ \A id \in DOMAIN users : users[id].sheet_id = gs.before[id].sheet_id
        /\ gs.ret = gs.a => gs.first = "200"

\* C31: no update of the user store is lost under concurrent threads: while
\* no thread holds file_lock, users.json holds what the calls made so far
\* leave when they run one after the other in the order in which they took
\* the lock; every call returns what it returns in that order, so the file
\* reflects every call that returned True; and no call reads a file that is
\* being written
C31_NoLostUpdate ==
    /\ jm.lock = "free" => jm.file = Complete(jm.serial)
    /\ \A t \in Threads :
          /\ ~jm.th[t].torn
          /\ jm.th[t].pc = "done" => jm.th[t].ret = jm.th[t].alone
          /\ (jm.th[t].pc = "done" /\ jm.th[t].op.fn = "get_user" /\ jm.th[t].ret)
                => jm.th[t].got # <<>> /\ jm.th[t].got[1].email = "u7@example.com"

\* three writers have interleaved and returned True, and the file holds the
\* update of each
C31_Witness ==
    /\ \A t \in Threads : jm.th[t].pc = "done" /\ jm.th[t].ret
    /\ {jm.th[t].op.fn : t \in Threads} = {"save_user", "update_user_tokens", "update_user_field"}
    /\ jm.th["t3"].op.fn = "save_user" /\ jm.th["t2"].op.id = "u7" /\ jm.th["t1"].op.id = "u7"
    /\ jm.file.complete
    /\ jm.file.users["u7"].access_token = "at2"
    /\ jm.file.users["u7"].sheet_id = "NEW"
    /\ jm.file.users["u8"].access_token = "at3"

\* C34: after a user has signed out and until a new sign-in completes, /start
\* shows that user the sign-in prompt, and a photo or list request of that
\* user sends no request to the row store
C34_SignedOutIsTurnedAway ==
    (sess.last.cmd \in {"start", "photo", "list"} /\ sess.last.telegram_id \in sess.out)
        => /\ sess.last.calls = <<>>
           /\ sess.last.cmd = "start" => sess.last.reply = "sign_in_prompt"

\* C35: once the callback has returned the redirect for a telegram_id, known
\* before or not, the store holds a record of that id with the new access
\* token and a sheet_id, and a photo sent next is not turned away
C35_CallbackLeavesRecord ==
    /\ sess.last.cmd = "callback"
           => /\ get_user(users, sess.last.telegram_id) # <<>>
              /\ users[sess.last.telegram_id].access_token \in {"at2", "at1"}
              /\ users[sess.last.telegram_id].sheet_id # Null
    /\ (sess.last.cmd = "photo" /\ sess.last.prev = "callback"
            /\ sess.last.prevId = sess.last.telegram_id)
           => sess.last.reply # "please_sign_in"

====
